---- MODULE Spec2Model ----
(***************************************************************************)
(* The backend-selection gateway of the "backend shootout" repository:     *)
(* a Hono application with a CORS middleware, two informational routes     *)
(* (GET /health, GET /backends) and a catch-all route that resolves the    *)
(* x-backend header against a registry built from the environment and      *)
(* proxies the request to the resolved backend; the two backends behind    *)
(* it, Bun-SQLite (task and project models over one database) and Hono-D1; *)
(* the MCP server of the repository; and the page of the frontend.         *)
(*                                                                         *)
(* Spec and FairSpec run the gateway on one request at a time,             *)
(* ConcurrentSpec runs it on several at once, BunSpec runs the models of   *)
(* the backend, RestSpec sends the same requests to the Hono-D1 backend    *)
(* and to the Bun-SQLite server, McpSpec runs the MCP server and PageSpec  *)
(* the frontend page.  Each leaves the variables of the others as they     *)
(* start.                                                                  *)
(*                                                                         *)
(* Strings are TLA+ strings.  A JavaScript value that may be undefined or  *)
(* null is a set: {} when it is absent, {v} when it is v.  A concatenated  *)
(* string (the target URL) is the sequence of its non-empty pieces.        *)
(***************************************************************************)
EXTENDS Integers, Sequences, FiniteSets, TLC

VARIABLES
    env,        \* c.env: the worker's bindings, fixed for the process
    runtime,    \* which Response constructor the process runs on
    pc,         \* position of the request being served
    req,        \* the inbound request being served
    lookups,    \* ids passed to registry.getBackend for this request
    outbound,   \* fetch() calls issued for this request, in order
    outcome,    \* what the upstream did with the fetch: {} while unknown
    elapsed,    \* timer steps since the fetch was issued
    responses,  \* responses delivered to the caller for this request
    inflight,   \* the requests a worker serves concurrently, one per slot
    tasks,      \* rows of the tasks table of the Bun-SQLite backend
    projects,   \* rows of the projects table of the Bun-SQLite backend
    clock,      \* the backend's wall clock
    issued,     \* number of identifiers crypto.randomUUID() has returned
    ret,        \* the last call on a model of the backend and what it returned
    removed,    \* identifiers of the rows deleted so far
    d1tasks,    \* rows of the tasks table of the Hono-D1 backend
    d1projects, \* rows of the projects table of the Hono-D1 backend
    d1issued,   \* identifiers crypto.randomUUID() has returned to Hono-D1
    httpReq,    \* the last HTTP request sent to the two backends
    d1res,      \* the response of the Hono-D1 backend to it
    bunres,     \* the response of the Bun-SQLite server to it
    mcpWorld,   \* what the MCP server finds around it: files and the CLI
    mcpCall,    \* the last request to the MCP server and how it completed
    uiTasks,    \* the task list of the frontend page (useState)
    uiError,    \* the error message of the frontend page (useState)
    calls,      \* the API calls the page is awaiting
    uiLast      \* the last thing that happened on the page

\* The gateway serving one request at a time.
gatewayVars == <<pc, req, lookups, outbound, outcome, elapsed, responses>>

\* The Bun-SQLite backend.
bunVars == <<tasks, projects, clock, issued, ret, removed>>

\* The Hono-D1 backend and the HTTP exchange with the two backends.
restVars == <<d1tasks, d1projects, d1issued, httpReq, d1res, bunres>>

\* The MCP server.
mcpVars == <<mcpWorld, mcpCall>>

\* The frontend page.
uiVars == <<uiTasks, uiError, calls, uiLast>>

vars == <<env, runtime, gatewayVars, inflight, bunVars, restVars, mcpVars, uiVars>>

(***************************************************************************)
(* Bounds of the model.                                                    *)
(***************************************************************************)
\* Steps of the AbortSignal timer between the fetch and its expiry.
TimerSteps == 2

\* Requests a worker serves at the same time.
MaxInFlight == 2

\* Identifiers crypto.randomUUID() hands out in a run of the backend.
MaxIds == 2

\* Instants of the backend's clock after the first.
MaxClock == 1

\* Tasks the API returns to the page.
MaxTasks == 2

\* API calls the page awaits at the same time.
MaxCalls == 2

(***************************************************************************)
(* JavaScript helpers.                                                     *)
(***************************************************************************)
None == {}
Some(v) == {v}
TheValue(m) == CHOOSE v \in m : TRUE

\* JavaScript truthiness of an optional string: undefined and "" are falsy.
Truthy(m) == m # None /\ m # Some("")

\* a || b
OrElse(m, d) == IF Truthy(m) THEN TheValue(m) ELSE d

\* A string as the sequence of its non-empty pieces; \o concatenates.
Piece(s) == IF s = "" THEN <<>> ELSE <<s>>

(***************************************************************************)
(* Inputs.                                                                 *)
(***************************************************************************)
Methods == {"GET", "HEAD", "POST", "PUT", "PATCH", "DELETE", "OPTIONS"}
Paths == {"/health", "/backends", "/tasks"}
Queries == {"", "?status=done"}
Bodies == {"", "{\"title\":\"x\"}"}
BackendHeaders == {None, Some(""), Some("hono-d1"), Some("bun-sqlite"),
                   Some("HONO-D1"), Some("does-not-exist")}
ClientIps == {None, Some("203.0.113.7")}
ContentTypes == {None, Some("text/plain")}
Accepts == {None, Some("text/html")}

\* Requests that declare no media type, over every method, path and query.
PlainRequests ==
    [method : Methods, pathname : Paths, search : Queries, body : Bodies,
     xBackend : BackendHeaders, cfConnectingIp : ClientIps,
     contentType : {None}, accept : {None}]

\* Requests for /tasks that declare what they send and what they accept.
TypedRequests ==
    [method : {"GET", "POST"}, pathname : {"/tasks"}, search : {""}, body : Bodies,
     xBackend : BackendHeaders, cfConnectingIp : {None},
     contentType : ContentTypes, accept : Accepts]

Requests == PlainRequests \cup TypedRequests

NoRequest ==
    [method |-> "", pathname |-> "", search |-> "", body |-> "",
     xBackend |-> None, cfConnectingIp |-> None,
     contentType |-> None, accept |-> None]

\* Values a URL binding can have: not set, set to the empty string, set.
HonoUrlValues == {None, Some(""), Some("http://up1")}
BunUrlValues == {None, Some(""), Some("http://up2")}

Envs == [BACKEND_HONO_D1_URL : HonoUrlValues, BACKEND_BUN_SQLITE_URL : BunUrlValues]

\* The Response constructor: the Fetch Standard rejects a non-null body with
\* a null-body status; workerd accepts it when the body has length zero.
Runtimes == {"fetch-standard", "workerd"}

\* What an upstream can answer.
UpstreamAnswers ==
    { [status |-> 200, text |-> "[]"],
      [status |-> 201, text |-> "{\"id\":\"t1\",\"title\":\"x\",\"status\":\"inbox\"}"],
      [status |-> 204, text |-> ""],
      [status |-> 400, text |-> "{\"error\":\"Validation Error\"}"],
      [status |-> 404, text |-> "{\"error\":\"Not Found\"}"],
      [status |-> 500, text |-> "Internal Server Error"] }

\* Network-level failures of fetch(), each with the message of its error.
NetworkFailures ==
    { [reason |-> "refused", message |-> "connect ECONNREFUSED"],
      [reason |-> "dns", message |-> "getaddrinfo ENOTFOUND"],
      [reason |-> "tls", message |-> "TLS handshake failed"] }

TimeoutFailure ==
    [reason |-> "timeout", message |-> "The operation was aborted due to timeout"]

(***************************************************************************)
(* The registry.  A Map is the sequence of its entries in insertion order. *)
(***************************************************************************)
MapHas(m, k) == \E i \in 1..Len(m) : m[i].key = k

MapGet(m, k) ==
    IF MapHas(m, k)
    THEN Some((m[CHOOSE i \in 1..Len(m) : m[i].key = k]).value)
    ELSE None

MapSet(m, k, v) ==
    IF MapHas(m, k)
    THEN [i \in 1..Len(m) |-> IF m[i].key = k THEN [key |-> k, value |-> v] ELSE m[i]]
    ELSE Append(m, [key |-> k, value |-> v])

MapValues(m) == [i \in 1..Len(m) |-> m[i].value]

DefaultHonoUrl == "https://hono-d1-backend.salalite.workers.dev"

createRegistry_NoDefault(e) ==
    LET backends0 ==
            IF Truthy(e.BACKEND_HONO_D1_URL)
            THEN << [key |-> "hono-d1",
                     value |-> [id |-> "hono-d1", name |-> "Hono + D1 (Cloud)",
                                url |-> TheValue(e.BACKEND_HONO_D1_URL),
                                type |-> "cloud", healthEndpoint |-> "/health"]] >>
            ELSE << >>
    IN  IF Truthy(e.BACKEND_BUN_SQLITE_URL)
        THEN MapSet(backends0, "bun-sqlite",
                    [id |-> "bun-sqlite", name |-> "Bun + SQLite (Local)",
                     url |-> TheValue(e.BACKEND_BUN_SQLITE_URL),
                     type |-> "local", healthEndpoint |-> "/health"])
        ELSE backends0

createRegistry_AlwaysBun(e) ==
    LET backendUrl == OrElse(e.BACKEND_HONO_D1_URL, DefaultHonoUrl)
        backends0 ==
            << [key |-> "hono-d1",
                value |-> [id |-> "hono-d1", name |-> "Hono + D1 (Cloud)",
                           url |-> backendUrl, type |-> "cloud",
                           healthEndpoint |-> "/health"]] >>
    IN  MapSet(backends0, "bun-sqlite",
               [id |-> "bun-sqlite", name |-> "Bun + SQLite (Local)",
                url |-> OrElse(e.BACKEND_BUN_SQLITE_URL, ""),
                type |-> "local", healthEndpoint |-> "/health"])

\* createRegistry(env): the backends Map the two closures share.
createRegistry(e) ==
    LET backendUrl == OrElse(e.BACKEND_HONO_D1_URL, DefaultHonoUrl)
        backends0 ==
            << [key |-> "hono-d1",
                value |-> [id |-> "hono-d1", name |-> "Hono + D1 (Cloud)",
                           url |-> backendUrl, type |-> "cloud",
                           healthEndpoint |-> "/health"]] >>
    IN  IF Truthy(e.BACKEND_BUN_SQLITE_URL)
        THEN MapSet(backends0, "bun-sqlite",
                    [id |-> "bun-sqlite", name |-> "Bun + SQLite (Local)",
                     url |-> TheValue(e.BACKEND_BUN_SQLITE_URL),
                     type |-> "local", healthEndpoint |-> "/health"])
        ELSE backends0

\* String.prototype.toLowerCase on the identifiers of the model.
toLowerCase(id) ==
    IF id = "HONO-D1" THEN "hono-d1"
    ELSE IF id = "BUN-SQLITE" THEN "bun-sqlite"
    ELSE id

\* A variant that normalises the case of the identifier before the lookup.
getBackend_IgnoreCase(backends, id) == MapGet(backends, toLowerCase(id))

getBackend_FirstOnMiss(backends, id) ==
    IF MapHas(backends, id) THEN MapGet(backends, id) ELSE Some(backends[1].value)

\* registry.getBackend(id): backends.get(id) || null.
getBackend(backends, id) == MapGet(backends, id)

\* registry.listBackends(): Array.from(backends.values()).
listBackends(backends) == MapValues(backends)

\* registry.listBackends().map(b => b.id)
availableIds(backends) ==
    [i \in 1..Len(listBackends(backends)) |-> listBackends(backends)[i].id]

(***************************************************************************)
(* Responses.  A body is [text |-> t] for a string, [json |-> v] for a     *)
(* value serialised by c.json, [null |-> TRUE] for no body.  Headers are a *)
(* function from lower-case header names to values.                        *)
(***************************************************************************)
TextBody(t) == [text |-> t]
JsonBody(v) == [json |-> v]
NullBody == [null |-> TRUE]

NoHeaders == [n \in {} |-> ""]

\* Headers of `over` laid over `base`, content-type excepted (Hono keeps the
\* content-type of the response a handler returns).
MergeHeaders(base, over) ==
    LET laid == DOMAIN over \ {"content-type"}
    IN  [n \in DOMAIN base \cup laid |-> IF n \in laid THEN over[n] ELSE base[n]]

\* Statuses the Fetch Standard calls null body statuses.
NullBodyStatus == {101, 204, 205, 304}

\* new Response(text, {status, headers}) with a string body: the response, or
\* None when the constructor throws a TypeError.
NewResponse(rt, text, status, headers) ==
    IF status \in NullBodyStatus
    THEN IF rt = "workerd" /\ text = ""
         THEN Some([status |-> status, body |-> NullBody, headers |-> headers])
         ELSE None
    ELSE Some([status |-> status, body |-> TextBody(text), headers |-> headers])

NullBodyTypeError == "Response with null body status cannot have body"

(***************************************************************************)
(* The CORS middleware: app.use('*', cors({...})).                         *)
(***************************************************************************)
\* Headers cors() sets on the context before the handlers run.
corsContextHeaders == "access-control-allow-origin" :> "*"

\* The response cors() returns itself to an OPTIONS request: the allowMethods
\* and allowHeaders lists joined with ",".
corsPreflightResponse ==
    [status |-> 204, body |-> NullBody,
     headers |-> corsContextHeaders
        @@ ("access-control-allow-methods" :> "GET,POST,PUT,PATCH,DELETE,OPTIONS")
        @@ ("access-control-allow-headers" :> "Content-Type,x-backend,x-backend-location")]

\* c.json(value, status)
cJson(value, status) ==
    [status |-> status, body |-> JsonBody(value),
     headers |-> "content-type" :> "application/json"]

\* The Response the application returns for the response `res` of a handler:
\* the headers the middleware set on the context are laid over it.  (The HTTP
\* layer sends the response to a HEAD request without its body.)
Finalize(res) ==
    [res EXCEPT !.headers = MergeHeaders(res.headers, corsContextHeaders)]

(***************************************************************************)
(* proxyRequest(request, backend, timeout = 30000)                         *)
(***************************************************************************)
timeout == 30000

targetUrl_NoSearch(request, backend) ==
    Piece(backend.url) \o Piece(request.pathname)

targetUrl(request, backend) ==
    Piece(backend.url) \o Piece(request.pathname) \o Piece(request.search)

newHeaders(request) ==
    LET fixed ==
            ("content-type" :> "application/json")
         @@ ("accept" :> "application/json")
         @@ ("x-forwarded-for" :> OrElse(request.cfConnectingIp, "unknown"))
         @@ ("x-gateway-version" :> "1.0.0")
    IN  IF Truthy(request.xBackend)
        THEN fixed @@ ("x-backend" :> TheValue(request.xBackend))
        ELSE fixed

\* undefined (no body) for GET and HEAD, request.body otherwise.
requestBody(request) ==
    IF request.method = "GET" \/ request.method = "HEAD" THEN "" ELSE request.body

\* The fetch(targetUrl, {...}) call.
fetchCall(request, backend) ==
    [url |-> targetUrl(request, backend), method |-> request.method,
     headers |-> newHeaders(request), body |-> requestBody(request),
     timeout |-> timeout]

corsHeaders ==
       ("access-control-allow-origin" :> "*")
    @@ ("access-control-allow-methods" :> "GET, POST, PUT, PATCH, DELETE, OPTIONS")
    @@ ("access-control-allow-headers" :> "Content-Type, x-backend, x-backend-location")

unavailableResponse_502(message) ==
    [status |-> 502, body |-> TextBody(message), headers |-> NoHeaders]

\* The catch block: 503 with the message of the error.
unavailableResponse(message) ==
    [status |-> 503,
     body |-> JsonBody([error |-> "Backend unavailable", message |-> message]),
     headers |-> "content-type" :> "application/json"]

\* The try block after the fetch resolved with `answer`: the relayed response,
\* or the catch block's response when the Response constructor throws.
relayResponse(rt, answer) ==
    LET made == NewResponse(rt, answer.text, answer.status, corsHeaders)
    IN  IF made = None THEN unavailableResponse(NullBodyTypeError) ELSE TheValue(made)

\* AbortSignal.timeout(timeout) has fired after `e` timer steps.
signalAborted_Never(e) == FALSE

signalAborted(e) == e >= TimerSteps

(***************************************************************************)
(* The application: routes in the order they are registered.               *)
(***************************************************************************)
\* Hono dispatches a HEAD request as GET.
dispatchMethod(request) == IF request.method = "HEAD" THEN "GET" ELSE request.method

Route_CatchAllFirst(request) ==
    IF request.method = "OPTIONS" THEN "preflight" ELSE "proxy"

Route_HealthAnyPath(request) ==
    IF request.method = "OPTIONS" THEN "preflight"
    ELSE IF dispatchMethod(request) = "GET" /\ request.pathname # "/backends" THEN "health"
    ELSE IF dispatchMethod(request) = "GET" THEN "backends"
    ELSE "proxy"

\* Which handler answers a request: cors() answers OPTIONS itself, then
\* app.get('/health'), app.get('/backends'), app.all('*').
Route(request) ==
    IF request.method = "OPTIONS" THEN "preflight"
    ELSE IF dispatchMethod(request) = "GET" /\ request.pathname = "/health" THEN "health"
    ELSE IF dispatchMethod(request) = "GET" /\ request.pathname = "/backends" THEN "backends"
    ELSE "proxy"

\* c.req.header('x-backend') || 'hono-d1'
backendId(request) == OrElse(request.xBackend, "hono-d1")

(***************************************************************************)
(* The components a specification leaves aside stay as they start.         *)
(***************************************************************************)
Slots == 1..MaxInFlight

\* A slot that serves no request.
IdleSlot ==
    [pc |-> "idle", req |-> NoRequest, lookups |-> <<>>, outbound |-> <<>>,
     outcome |-> None, responses |-> <<>>]

NothingInFlight == inflight = [i \in Slots |-> IdleSlot]

\* No call has been made on the models yet.
NoCall == [op |-> "none"]

\* The database after the migration: both tables exist and are empty.
DatabaseMigrated ==
    /\ tasks = {}
    /\ projects = {}
    /\ clock = 0
    /\ issued = 0
    /\ ret = NoCall
    /\ removed = {}

\* No request has been sent to the backends; Hono-D1's tables are empty.
BackendsUntouched ==
    /\ d1tasks = {}
    /\ d1projects = {}
    /\ d1issued = 0
    /\ httpReq = NoCall
    /\ d1res = None
    /\ bunres = None

\* A project root with nothing in it and an MCP server nobody has called.
EmptyRoot ==
    [specs |-> FALSE, adr |-> FALSE, component |-> FALSE, file |-> FALSE,
     sprint |-> FALSE, cli |-> FALSE, feedback |-> None]

McpUncalled ==
    /\ mcpWorld = EmptyRoot
    /\ mcpCall = NoCall

\* The page before its first render.
PageUnmounted ==
    /\ uiTasks = <<>>
    /\ uiError = None
    /\ calls = [slot \in 1..MaxCalls |-> NoCall]
    /\ uiLast = NoCall

OthersAside == BackendsUntouched /\ McpUncalled /\ PageUnmounted

Init ==
    /\ NothingInFlight
    /\ DatabaseMigrated
    /\ OthersAside
    /\ env \in Envs
    /\ runtime \in Runtimes
    /\ pc = "idle"
    /\ req = NoRequest
    /\ lookups = <<>>
    /\ outbound = <<>>
    /\ outcome = None
    /\ elapsed = 0
    /\ responses = <<>>

\* The platform hands an inbound request to the application.
Receive(r) ==
    /\ pc = "idle"
    /\ pc' = "received"
    /\ req' = r
    /\ lookups' = <<>>
    /\ outbound' = <<>>
    /\ outcome' = None
    /\ elapsed' = 0
    /\ responses' = <<>>
    /\ UNCHANGED <<env, runtime>>
    /\ UNCHANGED <<inflight, bunVars, restVars, mcpVars, uiVars>>

\* cors() answers an OPTIONS request; no handler runs.
Preflight ==
    /\ pc = "received"
    /\ Route(req) = "preflight"
    /\ responses' = Append(responses, corsPreflightResponse)
    /\ pc' = "done"
    /\ UNCHANGED <<env, runtime, req, lookups, outbound, outcome, elapsed>>
    /\ UNCHANGED <<inflight, bunVars, restVars, mcpVars, uiVars>>

\* app.get('/health'); the timestamp and environment fields are left out.
Health ==
    /\ pc = "received"
    /\ Route(req) = "health"
    /\ responses' = Append(responses, Finalize(cJson([status |-> "ok"], 200)))
    /\ pc' = "done"
    /\ UNCHANGED <<env, runtime, req, lookups, outbound, outcome, elapsed>>
    /\ UNCHANGED <<inflight, bunVars, restVars, mcpVars, uiVars>>

\* app.get('/backends')
Backends ==
    /\ pc = "received"
    /\ Route(req) = "backends"
    /\ LET registry == createRegistry(env)
       IN  responses' = Append(responses,
               Finalize(cJson([backends |-> listBackends(registry)], 200)))
    /\ pc' = "done"
    /\ UNCHANGED <<env, runtime, req, lookups, outbound, outcome, elapsed>>
    /\ UNCHANGED <<inflight, bunVars, restVars, mcpVars, uiVars>>

\* app.all('*') up to the await of fetch() in proxyRequest.
ProxyAll ==
    /\ pc = "received"
    /\ Route(req) = "proxy"
    /\ LET registry == createRegistry(env)
           id == backendId(req)
           backend == getBackend(registry, id)
       IN  /\ lookups' = Append(lookups, id)
           /\ IF backend = None
              THEN /\ responses' = Append(responses,
                          Finalize(cJson([error |-> "Unknown backend",
                                               available |-> availableIds(registry)], 400)))
                   /\ pc' = "done"
                   /\ UNCHANGED outbound
              ELSE /\ outbound' = Append(outbound, fetchCall(req, TheValue(backend)))
                   /\ pc' = "fetching"
                   /\ UNCHANGED responses
    /\ UNCHANGED <<env, runtime, req, outcome, elapsed>>
    /\ UNCHANGED <<inflight, bunVars, restVars, mcpVars, uiVars>>

\* Time passes while the fetch is pending, up to the expiry of the timer.
Tick ==
    /\ pc = "fetching"
    /\ elapsed < TimerSteps
    /\ elapsed' = elapsed + 1
    /\ UNCHANGED <<env, runtime, pc, req, lookups, outbound, outcome, responses>>
    /\ UNCHANGED <<inflight, bunVars, restVars, mcpVars, uiVars>>

\* The upstream answers; a HEAD request is answered without a body.
UpstreamResponds(a) ==
    /\ pc = "fetching"
    /\ ~signalAborted(elapsed)
    /\ LET answer == IF req.method = "HEAD" THEN [a EXCEPT !.text = ""] ELSE a
       IN  /\ outcome' = Some([kind |-> "answer", answer |-> answer])
           /\ responses' = Append(responses, Finalize(relayResponse(runtime, answer)))
    /\ pc' = "done"
    /\ UNCHANGED <<env, runtime, req, lookups, outbound, elapsed>>
    /\ UNCHANGED <<inflight, bunVars, restVars, mcpVars, uiVars>>

\* A variant that calls fetch() once more after the first rejection.
UpstreamFails_Retry(f) ==
    /\ pc = "fetching"
    /\ ~signalAborted(elapsed)
    /\ IF Len(outbound) < 2
       THEN /\ outbound' = Append(outbound, outbound[1])
            /\ UNCHANGED <<pc, outcome, responses>>
       ELSE /\ outcome' = Some([kind |-> "failure", failure |-> f])
            /\ responses' = Append(responses, Finalize(unavailableResponse(f.message)))
            /\ pc' = "done"
            /\ UNCHANGED outbound
    /\ UNCHANGED <<env, runtime, req, lookups, elapsed>>
    /\ UNCHANGED <<inflight, bunVars, restVars, mcpVars, uiVars>>

\* fetch() rejects with a network error.
UpstreamFails(f) ==
    /\ pc = "fetching"
    /\ ~signalAborted(elapsed)
    /\ outcome' = Some([kind |-> "failure", failure |-> f])
    /\ responses' = Append(responses, Finalize(unavailableResponse(f.message)))
    /\ pc' = "done"
    /\ UNCHANGED <<env, runtime, req, lookups, outbound, elapsed>>
    /\ UNCHANGED <<inflight, bunVars, restVars, mcpVars, uiVars>>

\* The AbortSignal fires: fetch() rejects with a TimeoutError.
Timeout ==
    /\ pc = "fetching"
    /\ signalAborted(elapsed)
    /\ outcome' = Some([kind |-> "failure", failure |-> TimeoutFailure])
    /\ responses' = Append(responses, Finalize(unavailableResponse(TimeoutFailure.message)))
    /\ pc' = "done"
    /\ UNCHANGED <<env, runtime, req, lookups, outbound, elapsed>>
    /\ UNCHANGED <<inflight, bunVars, restVars, mcpVars, uiVars>>

\* The response has been sent: the request and everything computed for it
\* are dropped, and the worker waits for the next request.
Discard ==
    /\ pc = "done"
    /\ pc' = "idle"
    /\ req' = NoRequest
    /\ lookups' = <<>>
    /\ outbound' = <<>>
    /\ outcome' = None
    /\ elapsed' = 0
    /\ responses' = <<>>
    /\ UNCHANGED <<env, runtime>>
    /\ UNCHANGED <<inflight, bunVars, restVars, mcpVars, uiVars>>

Dispatch == Preflight \/ Health \/ Backends \/ ProxyAll

Next ==
    \/ \E r \in Requests : Receive(r)
    \/ Preflight
    \/ Health
    \/ Backends
    \/ ProxyAll
    \/ Tick
    \/ \E a \in UpstreamAnswers : UpstreamResponds(a)
    \/ \E f \in NetworkFailures : UpstreamFails(f)
    \/ Timeout
    \/ Discard

Spec == Init /\ [][Next]_vars

\* The runtime runs the handler of a received request, the timer advances and
\* fires: a pending fetch settles.
FairSpec ==
    /\ Spec
    /\ WF_vars(Dispatch)
    /\ WF_vars(Tick)
    /\ WF_vars(Timeout)

TypeOK ==
    /\ env \in Envs
    /\ runtime \in Runtimes
    /\ pc \in {"idle", "received", "fetching", "done"}
    /\ req \in Requests \cup {NoRequest}
    /\ Len(lookups) <= 1
    /\ elapsed \in 0..TimerSteps

(***************************************************************************)
(* The gateway serving several requests at once.  A worker isolate runs    *)
(* the handlers of concurrent requests interleaved at their awaits: each   *)
(* invocation has its own context, registry and locals, and the only await *)
(* is the fetch in proxyRequest.                                           *)
(***************************************************************************)
\* The requests of the concurrent runs: the two informational routes, and a
\* forwarded POST with no selector, a registered one and an unknown one.
ConcurrentRequests ==
    {r \in PlainRequests :
        /\ r.search = "" /\ r.body = "" /\ r.cfConnectingIp = None
        /\ \/ /\ r.method = "GET"
              /\ r.pathname \in {"/health", "/backends"}
              /\ r.xBackend = None
           \/ /\ r.method = "POST"
              /\ r.pathname = "/tasks"
              /\ r.xBackend \in {None, Some("bun-sqlite"), Some("does-not-exist")}}

\* What the fetch of a concurrent run can settle with.
Settlements ==
    {[kind |-> "answer", answer |-> a] :
        a \in {u \in UpstreamAnswers : u.status \in {201, 204}}}
    \cup {[kind |-> "failure", failure |-> f] :
        f \in {TimeoutFailure} \cup {n \in NetworkFailures : n.reason = "refused"}}

\* app.fetch(r, e) up to its first await or its return: the slot it leaves.
dispatched(r, e) ==
    LET slot == [IdleSlot EXCEPT !.req = r, !.pc = "done"]
        registry == createRegistry(e)
        id == backendId(r)
        backend == getBackend(registry, id)
    IN  CASE Route(r) = "preflight" ->
                [slot EXCEPT !.responses = <<corsPreflightResponse>>]
          [] Route(r) = "health" ->
                [slot EXCEPT !.responses = <<Finalize(cJson([status |-> "ok"], 200))>>]
          [] Route(r) = "backends" ->
                [slot EXCEPT !.responses =
                    <<Finalize(cJson([backends |-> listBackends(registry)], 200))>>]
          [] OTHER ->
                IF backend = None
                THEN [slot EXCEPT
                        !.lookups = <<id>>,
                        !.responses =
                            <<Finalize(cJson([error |-> "Unknown backend",
                                              available |-> availableIds(registry)], 400))>>]
                ELSE [slot EXCEPT
                        !.lookups = <<id>>,
                        !.outbound = <<fetchCall(r, TheValue(backend))>>,
                        !.pc = "fetching"]

\* proxyRequest after its await: the slot once the fetch settled with o.
settled(slot, rt, o) ==
    [slot EXCEPT
        !.outcome = Some(o),
        !.pc = "done",
        !.responses =
            IF o.kind = "answer"
            THEN <<Finalize(relayResponse(rt, o.answer))>>
            ELSE <<Finalize(unavailableResponse(o.failure.message))>>]

\* A variant in which the handlers keep their locals in module scope: what
\* one invocation writes is what every request being served then reads.
Served_ModuleScope(slots, i, slot) ==
    [k \in DOMAIN slots |->
        IF k = i \/ slots[k].pc \in {"received", "fetching"} THEN slot ELSE slots[k]]

\* The slots after the invocation in slot i ran up to slot: its context and
\* locals are its own, the other invocations keep theirs.
Served(slots, i, slot) == [slots EXCEPT ![i] = slot]

\* The platform hands a request to the worker while others are in flight.
Arrive(i, r) ==
    /\ inflight[i].pc = "idle"
    /\ inflight' = Served(inflight, i, [IdleSlot EXCEPT !.req = r, !.pc = "received"])
    /\ UNCHANGED <<env, runtime, gatewayVars, bunVars, restVars, mcpVars, uiVars>>

\* The middleware and the handler of one request run up to the fetch.
Run(i) ==
    /\ inflight[i].pc = "received"
    /\ inflight' = Served(inflight, i, dispatched(inflight[i].req, env))
    /\ UNCHANGED <<env, runtime, gatewayVars, bunVars, restVars, mcpVars, uiVars>>

\* The fetch of one request settles and its handler returns.
Settle(i, o) ==
    /\ inflight[i].pc = "fetching"
    /\ inflight' = Served(inflight, i, settled(inflight[i], runtime, o))
    /\ UNCHANGED <<env, runtime, gatewayVars, bunVars, restVars, mcpVars, uiVars>>

\* The response of one request has been sent.
Leave(i) ==
    /\ inflight[i].pc = "done"
    /\ inflight' = Served(inflight, i, IdleSlot)
    /\ UNCHANGED <<env, runtime, gatewayVars, bunVars, restVars, mcpVars, uiVars>>

ConcurrentInit ==
    /\ env \in Envs
    /\ runtime \in Runtimes
    /\ pc = "idle"
    /\ req = NoRequest
    /\ lookups = <<>>
    /\ outbound = <<>>
    /\ outcome = None
    /\ elapsed = 0
    /\ responses = <<>>
    /\ NothingInFlight
    /\ OthersAside
    /\ DatabaseMigrated

ConcurrentNext ==
    \/ \E i \in Slots : \E r \in ConcurrentRequests : Arrive(i, r)
    \/ \E i \in Slots : Run(i)
    \/ \E i \in Slots : \E o \in Settlements : Settle(i, o)
    \/ \E i \in Slots : Leave(i)

ConcurrentSpec == ConcurrentInit /\ [][ConcurrentNext]_vars

(***************************************************************************)
(* The Bun-SQLite backend: TaskModel and ProjectModel over one SQLite      *)
(* database.  A table is the set of its rows; a row is a record; a column  *)
(* that may be NULL holds {} or {v}.  The models are synchronous, so every *)
(* call is one step.  No statement of the backend turns on the             *)
(* foreign_keys pragma, which SQLite leaves off: the FOREIGN KEY clause of *)
(* the tasks table is not enforced and project_id is plain data.           *)
(***************************************************************************)
\* z.enum(["inbox", "next", "waiting", "done"]) and the CHECK of tasks.status
TaskStatus == {"inbox", "next", "waiting", "done"}

\* z.enum(["active", "someday", "archive"]) and the CHECK of projects.status
ProjectStatus == {"active", "someday", "archive"}

\* crypto.randomUUID(): the n-th identifier differs from all before it.
generateId(n) == ToString(n)

Ids == {generateId(n) : n \in 1..MaxIds}

\* Arguments of TaskModel.create: title missing, empty or given; project_id
\* missing, empty or given; status missing, valid, outside the enum or
\* empty.
CreateTaskInputs ==
    [title : {None, Some(""), Some("a")}, project_id : {None}, status : {None}]
    \cup [title : {Some("a")},
          project_id : {None, Some(""), Some(generateId(1))},
          status : {None, Some("done"), Some("bogus")}]
    \cup [title : {Some("a")}, project_id : {None}, status : {Some("")}]

\* Arguments of TaskModel.update: each field missing or given; project_id
\* may also be given as null, written {{}}.
UpdateTaskInputs ==
    [title : {None, Some("b")},
     project_id : {None, Some(None), Some(Some(generateId(1)))},
     status : {None, Some("next"), Some("bogus")}]

\* Arguments of TaskModel.list.
ListStatuses == {None, Some("")} \cup {Some(st) : st \in TaskStatus}

\* Arguments of ProjectModel.create.
CreateProjectInputs ==
    [name : {None, Some(""), Some("p")}, status : {None}]
    \cup [name : {Some("p")}, status : {None, Some("archive"), Some("bogus"), Some("")}]

\* Arguments of ProjectModel.update.
UpdateProjectInputs ==
    [name : {None, Some("q")}, status : {None, Some("bogus")}]

\* a ?? b
Nullish(m, d) == IF m = None THEN d ELSE TheValue(m)

\* A variant of the schema that lets the empty title through.
CreateTaskInput_parses_AnyTitle(input) ==
    /\ input.title # None
    /\ input.status # None => TheValue(input.status) \in TaskStatus

\* CreateTaskInput.parse(input) returns rather than throws.
CreateTaskInput_parses(input) ==
    /\ input.title # None
    /\ TheValue(input.title) # ""
    /\ input.status # None => TheValue(input.status) \in TaskStatus

\* CreateProjectInput.parse(input) returns rather than throws.
CreateProjectInput_parses(input) ==
    /\ input.name # None
    /\ TheValue(input.name) # ""
    /\ input.status # None => TheValue(input.status) \in ProjectStatus

\* The CHECK and NOT NULL constraints of the tasks table.
TaskRowAllowed(row) == row.status \in TaskStatus

\* The CHECK and NOT NULL constraints of the projects table.
ProjectRowAllowed(row) == row.status \in ProjectStatus

\* SELECT * FROM <table> WHERE id = ?, then results[0].
selectById(rows, id) ==
    IF \E row \in rows : row.id = id
    THEN Some(CHOOSE row \in rows : row.id = id)
    ELSE None

\* A variant that filters whenever a status argument was passed.
selectTasks_AlwaysFilter(rows, status) ==
    {row \in rows : status # None /\ row.status = TheValue(status)}

\* The rows TaskModel.list(status) selects: the WHERE clause is used only
\* when status is truthy.
selectTasks(rows, status) ==
    IF Truthy(status)
    THEN {row \in rows : row.status = TheValue(status)}
    ELSE rows

\* ORDER BY created_at DESC: the orders a result can come in; rows of the
\* same instant come in either order.
Orderings(rows) ==
    {order \in [1..Cardinality(rows) -> rows] :
        /\ \A i, j \in DOMAIN order : order[i] = order[j] => i = j
        /\ \A i, j \in DOMAIN order : i < j => order[i].created_at >= order[j].created_at}

\* A variant whose default status is 'next'.
insertedTask_DefaultNext(input, id, now) ==
    [id |-> id, title |-> TheValue(input.title),
     status |-> OrElse(input.status, "next"),
     project_id |-> IF Truthy(input.project_id) THEN input.project_id ELSE None,
     created_at |-> now, updated_at |-> now]

\* The row TaskModel.create inserts.
insertedTask(input, id, now) ==
    [id |-> id, title |-> TheValue(input.title),
     status |-> OrElse(input.status, "inbox"),
     project_id |-> IF Truthy(input.project_id) THEN input.project_id ELSE None,
     created_at |-> now, updated_at |-> now]

\* The row ProjectModel.create inserts.
insertedProject(input, id, now) ==
    [id |-> id, name |-> TheValue(input.name),
     status |-> OrElse(input.status, "active"),
     created_at |-> now, updated_at |-> now]

\* A variant that takes project_id with ?? like the other fields.
updatedTask_NullishProject(existing, input, now) ==
    [existing EXCEPT
        !.title = Nullish(input.title, existing.title),
        !.status = Nullish(input.status, existing.status),
        !.project_id = IF input.project_id # None /\ TheValue(input.project_id) # None
                       THEN TheValue(input.project_id)
                       ELSE existing.project_id,
        !.updated_at = now]

\* The row TaskModel.update writes over an existing one.
updatedTask(existing, input, now) ==
    [existing EXCEPT
        !.title = Nullish(input.title, existing.title),
        !.status = Nullish(input.status, existing.status),
        !.project_id = IF input.project_id # None
                       THEN TheValue(input.project_id)
                       ELSE existing.project_id,
        !.updated_at = now]

\* The row ProjectModel.update writes over an existing one.
updatedProject(existing, input, now) ==
    [existing EXCEPT
        !.name = Nullish(input.name, existing.name),
        !.status = Nullish(input.status, existing.status),
        !.updated_at = now]

\* A variant whose DELETE has no WHERE clause.
deleteById_All(rows, id) == {}

\* DELETE FROM <table> WHERE id = ?
deleteById(rows, id) == {row \in rows : row.id # id}

\* TaskModel.create(input)
TaskCreate(input) ==
    /\ IF ~CreateTaskInput_parses(input)
       THEN /\ ret' = [op |-> "task.create", input |-> input, threw |-> TRUE]
            /\ UNCHANGED <<tasks, issued>>
       ELSE /\ issued < MaxIds
            /\ LET id == generateId(issued + 1)
                   row == insertedTask(input, id, clock)
               IN  /\ issued' = issued + 1
                   /\ tasks' = tasks \cup {row}
                   /\ ret' = [op |-> "task.create", input |-> input, threw |-> FALSE,
                              value |-> TheValue(selectById(tasks', id))]
    /\ UNCHANGED <<projects, clock, removed>>
    /\ UNCHANGED <<env, runtime, gatewayVars, inflight, restVars, mcpVars, uiVars>>

\* TaskModel.get(id)
TaskGet(id) ==
    /\ ret' = [op |-> "task.get", id |-> id, threw |-> FALSE,
               value |-> selectById(tasks, id)]
    /\ UNCHANGED <<tasks, projects, clock, issued, removed>>
    /\ UNCHANGED <<env, runtime, gatewayVars, inflight, restVars, mcpVars, uiVars>>

\* TaskModel.list(status)
TaskList(status) ==
    /\ \E order \in Orderings(selectTasks(tasks, status)) :
          ret' = [op |-> "task.list", status |-> status, threw |-> FALSE,
                  value |-> order]
    /\ UNCHANGED <<tasks, projects, clock, issued, removed>>
    /\ UNCHANGED <<env, runtime, gatewayVars, inflight, restVars, mcpVars, uiVars>>

\* TaskModel.update(id, input)
TaskUpdate(id, input) ==
    /\ LET existing == selectById(tasks, id)
       IN  IF existing = None
           THEN /\ ret' = [op |-> "task.update", id |-> id, input |-> input,
                           threw |-> FALSE, value |-> None]
                /\ UNCHANGED tasks
           ELSE LET row == updatedTask(TheValue(existing), input, clock)
                IN  IF ~TaskRowAllowed(row)
                    THEN /\ ret' = [op |-> "task.update", id |-> id, input |-> input,
                                    threw |-> TRUE]
                         /\ UNCHANGED tasks
                    ELSE /\ tasks' = (tasks \ existing) \cup {row}
                         /\ ret' = [op |-> "task.update", id |-> id, input |-> input,
                                    threw |-> FALSE, value |-> selectById(tasks', id)]
    /\ UNCHANGED <<projects, clock, issued, removed>>
    /\ UNCHANGED <<env, runtime, gatewayVars, inflight, restVars, mcpVars, uiVars>>

\* TaskModel.delete(id)
TaskDelete(id) ==
    /\ tasks' = deleteById(tasks, id)
    /\ removed' = IF selectById(tasks, id) # None THEN removed \cup {id} ELSE removed
    /\ ret' = [op |-> "task.delete", id |-> id, threw |-> FALSE, value |-> TRUE]
    /\ UNCHANGED <<projects, clock, issued>>
    /\ UNCHANGED <<env, runtime, gatewayVars, inflight, restVars, mcpVars, uiVars>>

\* ProjectModel.create(input)
ProjectCreate(input) ==
    /\ IF ~CreateProjectInput_parses(input)
       THEN /\ ret' = [op |-> "project.create", input |-> input, threw |-> TRUE]
            /\ UNCHANGED <<projects, issued>>
       ELSE /\ issued < MaxIds
            /\ LET id == generateId(issued + 1)
                   row == insertedProject(input, id, clock)
               IN  /\ issued' = issued + 1
                   /\ projects' = projects \cup {row}
                   /\ ret' = [op |-> "project.create", input |-> input, threw |-> FALSE,
                              value |-> TheValue(selectById(projects', id))]
    /\ UNCHANGED <<tasks, clock, removed>>
    /\ UNCHANGED <<env, runtime, gatewayVars, inflight, restVars, mcpVars, uiVars>>

\* ProjectModel.get(id)
ProjectGet(id) ==
    /\ ret' = [op |-> "project.get", id |-> id, threw |-> FALSE,
               value |-> selectById(projects, id)]
    /\ UNCHANGED <<tasks, projects, clock, issued, removed>>
    /\ UNCHANGED <<env, runtime, gatewayVars, inflight, restVars, mcpVars, uiVars>>

\* ProjectModel.list()
ProjectList ==
    /\ \E order \in Orderings(projects) :
          ret' = [op |-> "project.list", threw |-> FALSE, value |-> order]
    /\ UNCHANGED <<tasks, projects, clock, issued, removed>>
    /\ UNCHANGED <<env, runtime, gatewayVars, inflight, restVars, mcpVars, uiVars>>

\* ProjectModel.update(id, input)
ProjectUpdate(id, input) ==
    /\ LET existing == selectById(projects, id)
       IN  IF existing = None
           THEN /\ ret' = [op |-> "project.update", id |-> id, input |-> input,
                           threw |-> FALSE, value |-> None]
                /\ UNCHANGED projects
           ELSE LET row == updatedProject(TheValue(existing), input, clock)
                IN  IF ~ProjectRowAllowed(row)
                    THEN /\ ret' = [op |-> "project.update", id |-> id, input |-> input,
                                    threw |-> TRUE]
                         /\ UNCHANGED projects
                    ELSE /\ projects' = (projects \ existing) \cup {row}
                         /\ ret' = [op |-> "project.update", id |-> id, input |-> input,
                                    threw |-> FALSE, value |-> selectById(projects', id)]
    /\ UNCHANGED <<tasks, clock, issued, removed>>
    /\ UNCHANGED <<env, runtime, gatewayVars, inflight, restVars, mcpVars, uiVars>>

\* ProjectModel.delete(id)
ProjectDelete(id) ==
    /\ projects' = deleteById(projects, id)
    /\ removed' = IF selectById(projects, id) # None THEN removed \cup {id} ELSE removed
    /\ ret' = [op |-> "project.delete", id |-> id, threw |-> FALSE, value |-> TRUE]
    /\ UNCHANGED <<tasks, clock, issued>>
    /\ UNCHANGED <<env, runtime, gatewayVars, inflight, restVars, mcpVars, uiVars>>

\* Time passes between two calls: new Date() returns a later instant.
Elapse ==
    /\ clock < MaxClock
    /\ clock' = clock + 1
    /\ UNCHANGED <<tasks, projects, issued, ret, removed>>
    /\ UNCHANGED <<env, runtime, gatewayVars, inflight, restVars, mcpVars, uiVars>>

\* The status of the HTTP response the server built on the models gives for
\* a call: 400 when it threw, 404 when get or update found nothing.
apiStatus(call) ==
    IF call.threw THEN 400
    ELSE IF call.op \in {"task.create", "project.create"} THEN 201
    ELSE IF call.op \in {"task.get", "project.get", "task.update", "project.update"}
            /\ call.value = None
         THEN 404
    ELSE 200

BunInit ==
    /\ env = [BACKEND_HONO_D1_URL |-> None, BACKEND_BUN_SQLITE_URL |-> None]
    /\ runtime = "workerd"
    /\ pc = "idle"
    /\ req = NoRequest
    /\ lookups = <<>>
    /\ outbound = <<>>
    /\ outcome = None
    /\ elapsed = 0
    /\ responses = <<>>
    /\ NothingInFlight
    /\ OthersAside
    /\ DatabaseMigrated

BunNext ==
    \/ \E input \in CreateTaskInputs : TaskCreate(input)
    \/ \E id \in Ids : TaskGet(id)
    \/ \E status \in ListStatuses : TaskList(status)
    \/ \E id \in Ids : \E input \in UpdateTaskInputs : TaskUpdate(id, input)
    \/ \E id \in Ids : TaskDelete(id)
    \/ \E input \in CreateProjectInputs : ProjectCreate(input)
    \/ \E id \in Ids : ProjectGet(id)
    \/ ProjectList
    \/ \E id \in Ids : \E input \in UpdateProjectInputs : ProjectUpdate(id, input)
    \/ \E id \in Ids : ProjectDelete(id)
    \/ Elapse

BunSpec == BunInit /\ [][BunNext]_vars

(***************************************************************************)
(* The Hono-D1 backend, and the two backends side by side.  The Hono-D1    *)
(* application keeps its rows in a D1 database, which enforces the CHECK   *)
(* and FOREIGN KEY clauses of schema.sql.  D1's first() resolves to the    *)
(* first row, or to null when the query selects none.  An exception no     *)
(* handler catches is answered by Hono with 500 Internal Server Error.     *)
(* The Bun-SQLite backend is reached through the server built on its       *)
(* models.  A response is its status and its body.                         *)
(***************************************************************************)
\* obj[name], undefined when the object has no such property.
Property(obj, name) == IF name \in DOMAIN obj THEN Some(obj[name]) ELSE None

\* stmt.bind(id).first(): the row, or null.
first(rows, id) == selectById(rows, id)

\* const { results } = await stmt.first(): destructuring null throws a
\* TypeError, destructuring a row reads its property `results`.
results(firstValue) ==
    IF firstValue = None
    THEN [threw |-> TRUE]
    ELSE [threw |-> FALSE, value |-> Property(TheValue(firstValue), "results")]

\* c.json(value, status) of a backend; JSON.stringify(undefined) is
\* undefined and the response has no body.
json(value, status) ==
    [status |-> status,
     body |-> IF value = None THEN NullBody ELSE JsonBody(TheValue(value))]

\* Hono's answer to an exception thrown by a handler.
internalServerError == [status |-> 500, body |-> TextBody("Internal Server Error")]

\* c.json({ error: 'Not Found', message: `<Kind> with id '<id>' not found` }, 404)
notFound(kind, id) ==
    json(Some([error |-> "Not Found",
               message |-> <<kind, " with id '", id, "' not found">>]), 404)

\* c.json({ error: 'Validation Error', details: [{ field, message }] }, 400)
validationError(field, message) ==
    json(Some([error |-> "Validation Error",
               details |-> <<[field |-> field, message |-> message]>>]), 400)

\* The constraints of the tasks table of schema.sql: the CHECK on status and
\* the FOREIGN KEY on project_id.
d1TaskAllowed(row, parents) ==
    /\ row.status \in TaskStatus
    /\ row.project_id # None =>
          \E parent \in parents : parent.id = TheValue(row.project_id)

\* The constraints of the projects table of schema.sql.
d1ProjectAllowed(row) == row.status \in ProjectStatus

\* The row POST /tasks inserts.  (The bodies of the model carry no
\* description.)
d1InsertedTask(body, id, now) ==
    [id |-> id, title |-> TheValue(body.title), description |-> "",
     status |-> OrElse(body.status, "inbox"),
     project_id |-> IF Truthy(body.project_id) THEN body.project_id ELSE None,
     created_at |-> now, updated_at |-> now]

\* The row PUT /tasks/:id writes over an existing one.
d1UpdatedTask(existing, body, now) ==
    [existing EXCEPT
        !.title = Nullish(body.title, existing.title),
        !.status = Nullish(body.status, existing.status),
        !.project_id = IF body.project_id # None
                       THEN TheValue(body.project_id)
                       ELSE existing.project_id,
        !.updated_at = now]

\* The row POST /projects inserts.
d1InsertedProject(body, id, now) ==
    [id |-> id, name |-> TheValue(body.name),
     status |-> OrElse(body.status, "active"),
     created_at |-> now, updated_at |-> now]

\* The row PUT /projects/:id writes over an existing one.
d1UpdatedProject(existing, body, now) ==
    [existing EXCEPT
        !.name = Nullish(body.name, existing.name),
        !.status = Nullish(body.status, existing.status),
        !.updated_at = now]

\* ON DELETE SET NULL: the tasks table after the project `id` is deleted.
onDeleteSetNull(rows, id) ==
    {IF row.project_id = Some(id) THEN [row EXCEPT !.project_id = None] ELSE row :
        row \in rows}

\* Hono-D1, POST /tasks
D1PostTask(body) ==
    IF ~Truthy(body.title)
    THEN /\ d1res' = Some(validationError("title", "Title is required"))
         /\ UNCHANGED <<d1tasks, d1projects, d1issued>>
    ELSE /\ d1issued < MaxIds
         /\ LET id == generateId(d1issued + 1)
                row == d1InsertedTask(body, id, clock)
            IN  /\ d1issued' = d1issued + 1
                /\ UNCHANGED d1projects
                /\ IF ~d1TaskAllowed(row, d1projects)
                   THEN /\ d1res' = Some(internalServerError)
                        /\ UNCHANGED d1tasks
                   ELSE /\ d1tasks' = d1tasks \cup {row}
                        /\ LET read == results(first(d1tasks', id))
                           IN  d1res' = Some(IF read.threw THEN internalServerError
                                             ELSE json(read.value, 201))

\* Hono-D1, GET /tasks/:id
D1GetTask(id) ==
    /\ LET read == results(first(d1tasks, id))
       IN  d1res' = Some(IF read.threw THEN internalServerError
                         ELSE IF read.value = None THEN notFound("Task", id)
                         ELSE json(read.value, 200))
    /\ UNCHANGED <<d1tasks, d1projects, d1issued>>

\* Hono-D1, PUT /tasks/:id
D1PutTask(id, body) ==
    /\ LET existing == first(d1tasks, id)
       IN  IF existing = None
           THEN /\ d1res' = Some(notFound("Task", id))
                /\ UNCHANGED d1tasks
           ELSE LET row == d1UpdatedTask(TheValue(existing), body, clock)
                IN  IF ~d1TaskAllowed(row, d1projects)
                    THEN /\ d1res' = Some(internalServerError)
                         /\ UNCHANGED d1tasks
                    ELSE /\ d1tasks' = (d1tasks \ existing) \cup {row}
                         /\ LET read == results(first(d1tasks', id))
                            IN  d1res' = Some(IF read.threw THEN internalServerError
                                              ELSE json(read.value, 200))
    /\ UNCHANGED <<d1projects, d1issued>>

\* Hono-D1, DELETE /tasks/:id
D1DeleteTask(id) ==
    /\ IF first(d1tasks, id) = None
       THEN /\ d1res' = Some(notFound("Task", id))
            /\ UNCHANGED d1tasks
       ELSE /\ d1tasks' = deleteById(d1tasks, id)
            /\ d1res' = Some([status |-> 204, body |-> NullBody])
    /\ UNCHANGED <<d1projects, d1issued>>

\* Hono-D1, POST /projects
D1PostProject(body) ==
    IF ~Truthy(body.name)
    THEN /\ d1res' = Some(validationError("name", "Name is required"))
         /\ UNCHANGED <<d1tasks, d1projects, d1issued>>
    ELSE /\ d1issued < MaxIds
         /\ LET id == generateId(d1issued + 1)
                row == d1InsertedProject(body, id, clock)
            IN  /\ d1issued' = d1issued + 1
                /\ UNCHANGED d1tasks
                /\ IF ~d1ProjectAllowed(row)
                   THEN /\ d1res' = Some(internalServerError)
                        /\ UNCHANGED d1projects
                   ELSE /\ d1projects' = d1projects \cup {row}
                        /\ LET read == results(first(d1projects', id))
                           IN  d1res' = Some(IF read.threw THEN internalServerError
                                             ELSE json(read.value, 201))

\* Hono-D1, GET /projects/:id
D1GetProject(id) ==
    /\ LET read == results(first(d1projects, id))
       IN  d1res' = Some(IF read.threw THEN internalServerError
                         ELSE IF read.value = None THEN notFound("Project", id)
                         ELSE json(read.value, 200))
    /\ UNCHANGED <<d1tasks, d1projects, d1issued>>

\* Hono-D1, PUT /projects/:id
D1PutProject(id, body) ==
    /\ LET existing == first(d1projects, id)
       IN  IF existing = None
           THEN /\ d1res' = Some(notFound("Project", id))
                /\ UNCHANGED d1projects
           ELSE LET row == d1UpdatedProject(TheValue(existing), body, clock)
                IN  IF ~d1ProjectAllowed(row)
                    THEN /\ d1res' = Some(internalServerError)
                         /\ UNCHANGED d1projects
                    ELSE /\ d1projects' = (d1projects \ existing) \cup {row}
                         /\ LET read == results(first(d1projects', id))
                            IN  d1res' = Some(IF read.threw THEN internalServerError
                                              ELSE json(read.value, 200))
    /\ UNCHANGED <<d1tasks, d1issued>>

\* Hono-D1, DELETE /projects/:id
D1DeleteProject(id) ==
    /\ IF first(d1projects, id) = None
       THEN /\ d1res' = Some(notFound("Project", id))
            /\ UNCHANGED <<d1tasks, d1projects>>
       ELSE /\ d1projects' = deleteById(d1projects, id)
            /\ d1tasks' = onDeleteSetNull(d1tasks, id)
            /\ d1res' = Some([status |-> 204, body |-> NullBody])
    /\ UNCHANGED d1issued

\* Response.json(value, { status })
ResponseJson(value, status) == [status |-> status, body |-> JsonBody(value)]

\* Response.json({ error: "Validation Error", message: e.message }, { status: 400 })
bunValidationError(message) ==
    ResponseJson([error |-> "Validation Error", message |-> message], 400)

\* Response.json({ error: "Not Found" }, { status: 404 })
bunNotFound == ResponseJson([error |-> "Not Found"], 404)

\* Bun-SQLite server, POST /tasks: taskModel.create(body) in a try.
BunPostTask(body) ==
    IF ~CreateTaskInput_parses(body)
    THEN /\ bunres' = Some(bunValidationError("ZodError"))
         /\ UNCHANGED <<tasks, projects, issued>>
    ELSE /\ issued < MaxIds
         /\ LET id == generateId(issued + 1)
                row == insertedTask(body, id, clock)
            IN  /\ issued' = issued + 1
                /\ tasks' = tasks \cup {row}
                /\ UNCHANGED projects
                /\ bunres' = Some(ResponseJson(TheValue(selectById(tasks', id)), 201))

\* Bun-SQLite server, GET /tasks/:id
BunGetTask(id) ==
    /\ LET task == selectById(tasks, id)
       IN  bunres' = Some(IF task = None THEN bunNotFound
                          ELSE ResponseJson(TheValue(task), 200))
    /\ UNCHANGED <<tasks, projects, issued>>

\* Bun-SQLite server, PUT /tasks/:id: taskModel.update(id, body) in a try.
BunPutTask(id, body) ==
    /\ LET existing == selectById(tasks, id)
       IN  IF existing = None
           THEN /\ bunres' = Some(bunNotFound)
                /\ UNCHANGED tasks
           ELSE LET row == updatedTask(TheValue(existing), body, clock)
                IN  IF ~TaskRowAllowed(row)
                    THEN /\ bunres' = Some(bunValidationError("CHECK constraint failed"))
                         /\ UNCHANGED tasks
                    ELSE /\ tasks' = (tasks \ existing) \cup {row}
                         /\ bunres' = Some(ResponseJson(TheValue(selectById(tasks', id)), 200))
    /\ UNCHANGED <<projects, issued>>

\* Bun-SQLite server, DELETE /tasks/:id
BunDeleteTask(id) ==
    /\ tasks' = deleteById(tasks, id)
    /\ bunres' = Some(ResponseJson([success |-> TRUE], 200))
    /\ UNCHANGED <<projects, issued>>

\* Bun-SQLite server, POST /projects: projectModel.create(body) in a try.
BunPostProject(body) ==
    IF ~CreateProjectInput_parses(body)
    THEN /\ bunres' = Some(bunValidationError("ZodError"))
         /\ UNCHANGED <<tasks, projects, issued>>
    ELSE /\ issued < MaxIds
         /\ LET id == generateId(issued + 1)
                row == insertedProject(body, id, clock)
            IN  /\ issued' = issued + 1
                /\ projects' = projects \cup {row}
                /\ UNCHANGED tasks
                /\ bunres' = Some(ResponseJson(TheValue(selectById(projects', id)), 201))

\* Bun-SQLite server, GET /projects/:id
BunGetProject(id) ==
    /\ LET project == selectById(projects, id)
       IN  bunres' = Some(IF project = None THEN bunNotFound
                          ELSE ResponseJson(TheValue(project), 200))
    /\ UNCHANGED <<tasks, projects, issued>>

\* Bun-SQLite server, PUT /projects/:id: no route matches, the last return
\* of the server answers.
BunPutProject(id, body) ==
    /\ bunres' = Some(bunNotFound)
    /\ UNCHANGED <<tasks, projects, issued>>

\* Bun-SQLite server, DELETE /projects/:id
BunDeleteProject(id) ==
    /\ projects' = deleteById(projects, id)
    /\ bunres' = Some(ResponseJson([success |-> TRUE], 200))
    /\ UNCHANGED <<tasks, issued>>

\* What a request to the two backends leaves alone.
RestFrame ==
    UNCHANGED <<env, runtime, gatewayVars, inflight, clock, ret, removed,
                mcpVars, uiVars>>

\* The same request sent to the two backends.
PostTask(body) ==
    /\ httpReq' = [op |-> "POST /tasks", body |-> body]
    /\ D1PostTask(body)
    /\ BunPostTask(body)
    /\ RestFrame

GetTask(id) ==
    /\ httpReq' = [op |-> "GET /tasks/:id", id |-> id]
    /\ D1GetTask(id)
    /\ BunGetTask(id)
    /\ RestFrame

PutTask(id, body) ==
    /\ httpReq' = [op |-> "PUT /tasks/:id", id |-> id, body |-> body]
    /\ D1PutTask(id, body)
    /\ BunPutTask(id, body)
    /\ RestFrame

DeleteTask(id) ==
    /\ httpReq' = [op |-> "DELETE /tasks/:id", id |-> id]
    /\ D1DeleteTask(id)
    /\ BunDeleteTask(id)
    /\ RestFrame

PostProject(body) ==
    /\ httpReq' = [op |-> "POST /projects", body |-> body]
    /\ D1PostProject(body)
    /\ BunPostProject(body)
    /\ RestFrame

GetProject(id) ==
    /\ httpReq' = [op |-> "GET /projects/:id", id |-> id]
    /\ D1GetProject(id)
    /\ BunGetProject(id)
    /\ RestFrame

PutProject(id, body) ==
    /\ httpReq' = [op |-> "PUT /projects/:id", id |-> id, body |-> body]
    /\ D1PutProject(id, body)
    /\ BunPutProject(id, body)
    /\ RestFrame

DeleteProject(id) ==
    /\ httpReq' = [op |-> "DELETE /projects/:id", id |-> id]
    /\ D1DeleteProject(id)
    /\ BunDeleteProject(id)
    /\ RestFrame

RestInit ==
    /\ env = [BACKEND_HONO_D1_URL |-> None, BACKEND_BUN_SQLITE_URL |-> None]
    /\ runtime = "workerd"
    /\ pc = "idle"
    /\ req = NoRequest
    /\ lookups = <<>>
    /\ outbound = <<>>
    /\ outcome = None
    /\ elapsed = 0
    /\ responses = <<>>
    /\ NothingInFlight
    /\ DatabaseMigrated
    /\ OthersAside

RestNext ==
    \/ \E body \in CreateTaskInputs : PostTask(body)
    \/ \E id \in Ids : GetTask(id)
    \/ \E id \in Ids : \E body \in UpdateTaskInputs : PutTask(id, body)
    \/ \E id \in Ids : DeleteTask(id)
    \/ \E body \in CreateProjectInputs : PostProject(body)
    \/ \E id \in Ids : GetProject(id)
    \/ \E id \in Ids : \E body \in UpdateProjectInputs : PutProject(id, body)
    \/ \E id \in Ids : DeleteProject(id)

RestSpec == RestInit /\ [][RestNext]_vars

(***************************************************************************)
(* The MCP server: nine tools and the feedback resource.  What the server  *)
(* finds around it is a record: whether the specs directory, the ADR       *)
(* directory, the component path, the specification or ADR file and the    *)
(* .sprint directory exist, whether the onecoder and git commands succeed, *)
(* and FEEDBACK.md: absent, or its content.  A text is the sequence of the *)
(* lines that split("\n") gives, so it is never empty and a text that ends *)
(* with a newline has "" as its last line.  Indices are counted from 0 as  *)
(* in the code.                                                            *)
(***************************************************************************)
\* The longest FEEDBACK.md of the model, in lines, the line after a final
\* newline not counted.
MaxLines == 11

\* A line that opens a log entry and one that does not.
FeedbackLines == {"### entry", "text"}

\* line.startsWith("###")
startsWith(line, prefix) == prefix = "###" /\ line = "### entry"

\* The contents of FEEDBACK.md: up to MaxLines lines, with or without a
\* newline after the last.
FeedbackFiles ==
    LET written == UNION {[1..n -> FeedbackLines] : n \in 1..MaxLines}
    IN  written \cup {Append(lines, "") : lines \in written}

\* The project roots of the model: the directories and commands vary and
\* FEEDBACK.md is absent, or only FEEDBACK.md is there.
Worlds ==
    [specs : BOOLEAN, adr : BOOLEAN, component : BOOLEAN, file : BOOLEAN,
     sprint : BOOLEAN, cli : BOOLEAN, feedback : {None}]
    \cup {[EmptyRoot EXCEPT !.feedback = Some(content)] : content \in FeedbackFiles}

\* request.params.arguments: omitted, an object without properties, or an
\* object with some of the properties the tools read.
Arguments ==
    {None} \cup
    {Some(a) : a \in [name : {None}, message : {None}, spec_id : {None},
                      adr_id : {None}, component : {None, Some("backends")}]
                     \cup [name : {Some("s1")}, message : {Some("m")},
                           spec_id : {Some("auth")}, adr_id : {Some("001")},
                           component : {None}]}

\* params.x with params = args: reading a property of undefined throws a
\* TypeError.
reads(args) == args # None

\* { success: false, error: message }
failure(message) == [success |-> FALSE, error |-> message]

\* { success: true, ... }
success(data) == [success |-> TRUE, data |-> data]

returned(result) == [threw |-> FALSE, result |-> result]
thrown == [threw |-> TRUE]

\* handleSprintStart(args)
handleSprintStart(world, args) ==
    IF ~reads(args) THEN thrown
    ELSE IF world.cli THEN returned(success("Sprint started successfully"))
    ELSE returned(failure("Command failed"))

\* handleSprintStatus(_args)
handleSprintStatus(world, args) ==
    IF world.cli THEN returned(success("status"))
    ELSE IF world.sprint THEN returned(success("No active sprint found"))
    ELSE returned(failure("Command failed"))

\* handleSprintCommit(args)
handleSprintCommit(world, args) ==
    IF ~reads(args) THEN thrown
    ELSE IF world.cli THEN returned(success("Commit created successfully"))
    ELSE returned(failure("Command failed"))

\* handleSprintClose(args)
handleSprintClose(world, args) ==
    IF ~reads(args) THEN thrown
    ELSE IF world.cli THEN returned(success("Sprint closed successfully"))
    ELSE returned(failure("Command failed"))

\* handleListSpecs(_args)
handleListSpecs(world, args) ==
    IF ~world.specs THEN returned(failure("Specs directory not found"))
    ELSE returned(success("specs"))

\* handleListAdr(_args)
handleListAdr(world, args) ==
    IF ~world.adr
    THEN returned(success("No ADR directory found (this is okay for early phases)"))
    ELSE returned(success("adrs"))

\* handleAnalyzeArchitecture(args)
handleAnalyzeArchitecture(world, args) ==
    IF ~reads(args) THEN thrown
    ELSE IF Truthy(TheValue(args).component) /\ world.component
         THEN returned(success("structure"))
         ELSE returned(success("analysis"))

\* handleValidateSpec(args)
handleValidateSpec(world, args) ==
    IF ~reads(args) THEN thrown
    ELSE IF ~world.file THEN returned(failure("Specification not found"))
    ELSE returned(success("checks"))

\* handleValidateAdr(args)
handleValidateAdr(world, args) ==
    IF ~reads(args) THEN thrown
    ELSE IF ~world.file THEN returned(failure("ADR not found"))
    ELSE returned(success("checks"))

\* The names under which setupTools() registers the handlers.
Tools ==
    {"onecoder-sprint-start", "onecoder-sprint-status", "onecoder-sprint-commit",
     "onecoder-sprint-close", "project-list-specs", "project-list-adr",
     "project-analyze-architecture", "validate-against-spec", "validate-against-adr"}

\* What a request to the MCP server leaves alone: everything but the record
\* of the call.
McpFrame ==
    UNCHANGED <<env, runtime, gatewayVars, inflight, bunVars, restVars, uiVars,
                mcpWorld>>

\* The CallTool request handler on a registered tool: the handler's result,
\* or its exception thrown again.
CallTool(name, args, completion) ==
    /\ mcpCall' = [op |-> "tools/call", name |-> name, args |-> args,
                   threw |-> completion.threw,
                   result |-> IF completion.threw THEN None
                              ELSE Some(completion.result)]
    /\ McpFrame

SprintStart(args) ==
    CallTool("onecoder-sprint-start", args, handleSprintStart(mcpWorld, args))

SprintStatus(args) ==
    CallTool("onecoder-sprint-status", args, handleSprintStatus(mcpWorld, args))

SprintCommit(args) ==
    CallTool("onecoder-sprint-commit", args, handleSprintCommit(mcpWorld, args))

SprintClose(args) ==
    CallTool("onecoder-sprint-close", args, handleSprintClose(mcpWorld, args))

ListSpecs(args) ==
    CallTool("project-list-specs", args, handleListSpecs(mcpWorld, args))

ListAdr(args) ==
    CallTool("project-list-adr", args, handleListAdr(mcpWorld, args))

AnalyzeArchitecture(args) ==
    CallTool("project-analyze-architecture", args,
             handleAnalyzeArchitecture(mcpWorld, args))

ValidateSpec(args) ==
    CallTool("validate-against-spec", args, handleValidateSpec(mcpWorld, args))

ValidateAdr(args) ==
    CallTool("validate-against-adr", args, handleValidateAdr(mcpWorld, args))

\* Entries of which feedback://recent speaks.
RecentEntries == 10

\* Lines of the head of the file that feedback://recent puts first.
HeaderLines == 20

Min(a, b) == IF a < b THEN a ELSE b
Max(a, b) == IF a > b THEN a ELSE b

\* array.slice(start, end): a negative index counts from the end.
slice(array, start, end) ==
    LET len == Len(array)
        from == IF start < 0 THEN Max(len + start, 0) ELSE Min(start, len)
        to == IF end < 0 THEN Max(len + end, 0) ELSE Min(end, len)
    IN  IF from < to THEN SubSeq(array, from + 1, to) ELSE <<>>

\* lines.map((line, index) => line.startsWith("###") ? index : -1)
\*      .filter((i) => i !== -1)
RECURSIVE entryIndicesFrom(_, _)
entryIndicesFrom(lines, index) ==
    IF index >= Len(lines) THEN <<>>
    ELSE (IF startsWith(lines[index + 1], "###") THEN <<index>> ELSE <<>>)
         \o entryIndicesFrom(lines, index + 1)

entryIndices(lines) == entryIndicesFrom(lines, 0)

\* lines.findIndex((line, i) => i > last && line.startsWith("###"))
findIndex(lines, last) ==
    LET found == {i \in 0..(Len(lines) - 1) : i > last /\ startsWith(lines[i + 1], "###")}
    IN  IF found = {} THEN -1 ELSE CHOOSE i \in found : \A j \in found : i <= j

\* array.join("\n"), as the lines of the string it gives.
join(array) == IF array = <<>> THEN <<"">> ELSE array

\* const endIndex = last + 1 < lines.length ? lines.findIndex(...) : lines.length
endIndex(lines, last) ==
    IF last + 1 < Len(lines) THEN findIndex(lines, last) ELSE Len(lines)

\* The text handleReadFeedback returns for feedback://recent.
recentContent(content) ==
    LET lines == content
        indices == entryIndices(lines)
    IN  IF Len(indices) = 0 THEN content
        ELSE LET recentIndices == slice(indices, -RecentEntries, Len(indices))
                 startIndex == recentIndices[1]
                 last == recentIndices[Len(recentIndices)]
             IN  join(slice(lines, 0, Min(HeaderLines, startIndex)))
                 \o join(slice(lines, startIndex, endIndex(lines, last)))

\* uri.replace("feedback://", "").trim()
uriPart(uri) ==
    CASE uri = "feedback://recent" -> "recent"
      [] uri = "feedback://all" -> "all"
      [] OTHER -> uri

FeedbackUris == {"feedback://recent", "feedback://all"}

\* handleReadFeedback(uri)
handleReadFeedback(world, uri) ==
    IF world.feedback = None
    THEN [json |-> [error |-> "FEEDBACK.md not found"]]
    ELSE LET content == TheValue(world.feedback)
         IN  IF uriPart(uri) = "recent"
             THEN [text |-> recentContent(content)]
             ELSE [text |-> content]

\* The ReadResource request handler on a feedback:// URI.
ReadFeedback(uri) ==
    /\ mcpCall' = [op |-> "resources/read", uri |-> uri, threw |-> FALSE,
                   contents |-> handleReadFeedback(mcpWorld, uri)]
    /\ McpFrame

McpInit ==
    /\ env = [BACKEND_HONO_D1_URL |-> None, BACKEND_BUN_SQLITE_URL |-> None]
    /\ runtime = "workerd"
    /\ pc = "idle"
    /\ req = NoRequest
    /\ lookups = <<>>
    /\ outbound = <<>>
    /\ outcome = None
    /\ elapsed = 0
    /\ responses = <<>>
    /\ NothingInFlight
    /\ DatabaseMigrated
    /\ BackendsUntouched
    /\ PageUnmounted
    /\ mcpWorld \in Worlds
    /\ mcpCall = NoCall

McpNext ==
    \/ \E args \in Arguments : SprintStart(args)
    \/ \E args \in Arguments : SprintStatus(args)
    \/ \E args \in Arguments : SprintCommit(args)
    \/ \E args \in Arguments : SprintClose(args)
    \/ \E args \in Arguments : ListSpecs(args)
    \/ \E args \in Arguments : ListAdr(args)
    \/ \E args \in Arguments : AnalyzeArchitecture(args)
    \/ \E args \in Arguments : ValidateSpec(args)
    \/ \E args \in Arguments : ValidateAdr(args)
    \/ \E uri \in FeedbackUris : ReadFeedback(uri)

McpSpec == McpInit /\ [][McpNext]_vars

(***************************************************************************)
(* The frontend page.  Its task list is the sequence of its tasks, a task  *)
(* is its id and its status.  toggleTask, moveTask and deleteTask change   *)
(* the list at once and then await the API call; other events are handled *)
(* while a call is awaited, so that the part of a handler after its await  *)
(* is a step of its own.  The page is rendered again between two events:   *)
(* a handler finds in `tasks` the list as it is when it starts.            *)
(***************************************************************************)
CallSlots == 1..MaxCalls

\* The ids of the tasks of the page.
PageIds == {generateId(i) : i \in 1..MaxTasks}

\* A slot in which no call is awaited.
NoPending == NoCall

\* The lists api.tasks.list() resolves to: MaxTasks tasks, each in some
\* status.
LoadedLists ==
    {[i \in 1..MaxTasks |-> [id |-> generateId(i), status |-> statuses[i]]] :
        statuses \in [1..MaxTasks -> TaskStatus]}

\* tasks.find(t => t.id === id)
find(list, id) ==
    IF \E i \in DOMAIN list : list[i].id = id
    THEN Some(list[CHOOSE i \in DOMAIN list : list[i].id = id])
    ELSE None

\* prev.map(t => t.id === id ? { ...t, status } : t)
withStatus(list, id, status) ==
    [i \in DOMAIN list |->
        IF list[i].id = id THEN [list[i] EXCEPT !.status = status] ELSE list[i]]

\* prev.filter(t => t.id !== id)
RECURSIVE without(_, _)
without(list, id) ==
    IF list = <<>> THEN <<>>
    ELSE (IF Head(list).id = id THEN <<>> ELSE <<Head(list)>>) \o without(Tail(list), id)

\* setTasks(oldTasks) in the catch of deleteTask.
restored(list, oldTasks, id) == oldTasks

\* What an event of the page leaves alone.
PageFrame ==
    UNCHANGED <<env, runtime, gatewayVars, inflight, bunVars, restVars, mcpVars>>

\* loadTasks() of the first effect resolves: setTasks(apiTasks.map(...)).
LoadTasks(list) ==
    /\ uiLast = NoCall
    /\ uiTasks' = list
    /\ uiError' = None
    /\ uiLast' = [kind |-> "loaded"]
    /\ UNCHANGED calls
    /\ PageFrame

\* loadTasks() of the first effect rejects: setError(err.message).
LoadFails ==
    /\ uiLast = NoCall
    /\ uiError' = Some("Failed to load tasks")
    /\ uiLast' = [kind |-> "load failed"]
    /\ UNCHANGED <<uiTasks, calls>>
    /\ PageFrame

\* The handler runs up to its await: the list is changed and the call sent.
Awaiting(slot, call, list) ==
    /\ calls[slot] = NoPending
    /\ calls' = [calls EXCEPT ![slot] = call]
    /\ uiTasks' = list
    /\ uiLast' = [kind |-> "start", call |-> call]
    /\ UNCHANGED uiError
    /\ PageFrame

\* toggleTask(id) up to `await api.tasks.update(id, { status: newStatus })`
ToggleTask(slot, id) ==
    /\ find(uiTasks, id) # None
    /\ LET task == TheValue(find(uiTasks, id))
           newStatus == IF task.status = "done" THEN "next" ELSE "done"
       IN  Awaiting(slot,
                    [op |-> "toggleTask", id |-> id, before |-> task.status,
                     after |-> newStatus, oldTasks |-> <<>>],
                    withStatus(uiTasks, id, newStatus))

\* moveTask(id, newStatus) up to `await api.tasks.update(id, { status: newStatus })`
MoveTask(slot, id, newStatus) ==
    /\ find(uiTasks, id) # None
    /\ LET task == TheValue(find(uiTasks, id))
       IN  Awaiting(slot,
                    [op |-> "moveTask", id |-> id, before |-> task.status,
                     after |-> newStatus, oldTasks |-> <<>>],
                    withStatus(uiTasks, id, newStatus))

\* deleteTask(id) up to `await api.tasks.delete(id)`; the page offers the
\* deletion of the tasks it shows.
DeleteTaskClicked(slot, id) ==
    /\ find(uiTasks, id) # None
    /\ LET task == TheValue(find(uiTasks, id))
       IN  Awaiting(slot,
                    [op |-> "deleteTask", id |-> id, before |-> task.status,
                     after |-> "", oldTasks |-> uiTasks],
                    without(uiTasks, id))

\* The awaited call resolves: the handler returns.
Resolve(slot) ==
    /\ calls[slot] # NoPending
    /\ calls' = [calls EXCEPT ![slot] = NoPending]
    /\ uiLast' = [kind |-> "ok", call |-> calls[slot]]
    /\ UNCHANGED <<uiTasks, uiError>>
    /\ PageFrame

\* The awaited call rejects: the catch block of the handler runs.
Reject(slot) ==
    /\ calls[slot] # NoPending
    /\ LET call == calls[slot]
       IN  /\ uiTasks' = IF call.op = "deleteTask"
                         THEN restored(uiTasks, call.oldTasks, call.id)
                         ELSE withStatus(uiTasks, call.id, call.before)
           /\ uiError' = Some(IF call.op = "deleteTask" THEN "Failed to delete task"
                              ELSE "Failed to update task")
           /\ uiLast' = [kind |-> "failed", call |-> call]
    /\ calls' = [calls EXCEPT ![slot] = NoPending]
    /\ PageFrame

PageInit ==
    /\ env = [BACKEND_HONO_D1_URL |-> None, BACKEND_BUN_SQLITE_URL |-> None]
    /\ runtime = "workerd"
    /\ pc = "idle"
    /\ req = NoRequest
    /\ lookups = <<>>
    /\ outbound = <<>>
    /\ outcome = None
    /\ elapsed = 0
    /\ responses = <<>>
    /\ NothingInFlight
    /\ DatabaseMigrated
    /\ OthersAside

PageNext ==
    \/ \E list \in LoadedLists : LoadTasks(list)
    \/ LoadFails
    \/ \E slot \in CallSlots : \E id \in PageIds : ToggleTask(slot, id)
    \/ \E slot \in CallSlots : \E id \in PageIds : \E status \in TaskStatus :
          MoveTask(slot, id, status)
    \/ \E slot \in CallSlots : \E id \in PageIds : DeleteTaskClicked(slot, id)
    \/ \E slot \in CallSlots : Resolve(slot)
    \/ \E slot \in CallSlots : Reject(slot)

PageSpec == PageInit /\ [][PageNext]_vars

(***************************************************************************)
(* Vocabulary of the properties.                                           *)
(***************************************************************************)
\* The handler of the request being served has run.
Handled == pc \in {"fetching", "done"}

\* The request asks one of the two informational routes.
Informational(r) ==
    r.method \in {"GET", "HEAD"} /\ r.pathname \in {"/health", "/backends"}

\* The request is neither a CORS preflight nor informational.
Forwardable(r) == r.method # "OPTIONS" /\ ~Informational(r)

RegisteredIds ==
    {createRegistry(env)[i].key : i \in 1..Len(createRegistry(env))}

\* The x-backend header is present and names a registered id.
BearsRegisteredId(r) ==
    r.xBackend # None /\ TheValue(r.xBackend) \in RegisteredIds

\* The x-backend header is present and its value is no key of the registry.
BearsUnknownId(r) ==
    r.xBackend # None /\ TheValue(r.xBackend) \notin RegisteredIds

\* The gateway's own 400 for an unknown backend.
IsRejection(res) ==
    /\ res.status = 400
    /\ "json" \in DOMAIN res.body
    /\ res.body.json.error = "Unknown backend"

\* The response relays the upstream's answer: same status, same body.
Relays(res, answer) ==
    /\ res.status = answer.status
    /\ \/ res.body = TextBody(answer.text)
       \/ answer.text = "" /\ res.body = NullBody

Answered == outcome # None /\ TheValue(outcome).kind = "answer"
Failed == outcome # None /\ TheValue(outcome).kind = "failure"

\* How often id occurs among the descriptors of a list.
Occurrences(list, id) == Cardinality({i \in 1..Len(list) : list[i].id = id})

(***************************************************************************)
(* C1  Forwarding.                                                         *)
(***************************************************************************)
\* C1 as stated: for every registered id and every inbound request bearing
\* x-backend: <id>, whatever its method, path and query, exactly the outbound
\* call <descriptor.url><path><query> is issued, with the method and the body
\* of the inbound request.  (Read for the requests outside the two
\* informational routes, which the gateway answers itself.)
C1_Original ==
    (Handled /\ BearsRegisteredId(req) /\ ~Informational(req)) =>
        /\ Len(outbound) = 1
        /\ outbound[1].url =
               Piece(TheValue(getBackend(createRegistry(env), TheValue(req.xBackend))).url)
               \o Piece(req.pathname) \o Piece(req.search)
        /\ outbound[1].method = req.method
        /\ outbound[1].body = req.body

\* C1 amended: for every registered id and every inbound request bearing
\* x-backend: <id> that is neither an OPTIONS request nor a GET/HEAD of
\* /health or /backends, exactly one outbound call is issued, to
\* <descriptor.url><path><query>, with the inbound method, and with the
\* inbound body unless the method is GET or HEAD, when it has no body.
C1_Forwarding ==
    (Handled /\ BearsRegisteredId(req) /\ Forwardable(req)) =>
        /\ Len(outbound) = 1
        /\ outbound[1].url =
               Piece(TheValue(getBackend(createRegistry(env), TheValue(req.xBackend))).url)
               \o Piece(req.pathname) \o Piece(req.search)
        /\ outbound[1].method = req.method
        /\ outbound[1].body =
               IF req.method \in {"GET", "HEAD"} THEN "" ELSE req.body

C1_Witness ==
    /\ pc = "done"
    /\ req.method = "POST"
    /\ req.xBackend = Some("bun-sqlite")
    /\ req.search = "?status=done"
    /\ Len(outbound) = 1
    /\ outbound[1].url = <<"http://up2", "/tasks", "?status=done">>
    /\ outbound[1].body = "{\"title\":\"x\"}"
    /\ Answered

(***************************************************************************)
(* C2  Unknown-id rejection.                                               *)
(***************************************************************************)
\* C2 as stated: for every registry and every x-backend value that is not a
\* key of it, the gateway answers 400 with a payload listing exactly the
\* registered ids, and issues no outbound call.  (Read for the requests the
\* catch-all route handles.)
C2_Original ==
    (Handled /\ BearsUnknownId(req) /\ Forwardable(req)) =>
        /\ pc = "done"
        /\ Len(outbound) = 0
        /\ Len(responses) = 1
        /\ IsRejection(responses[1])
        /\ responses[1].body.json.available = availableIds(createRegistry(env))

\* C2 amended: for every registry and every non-empty x-backend value that is
\* not a key of it, a request the catch-all route handles (neither an OPTIONS
\* request nor a GET/HEAD of /health or /backends) is answered 400 with a
\* payload listing exactly the registered ids, in registry order, and no
\* outbound call is issued for it.  (An empty value counts as no header.)
C2_UnknownIdRejected ==
    (Handled /\ BearsUnknownId(req) /\ TheValue(req.xBackend) # ""
        /\ Forwardable(req)) =>
        /\ pc = "done"
        /\ Len(outbound) = 0
        /\ Len(responses) = 1
        /\ IsRejection(responses[1])
        /\ responses[1].body.json.available = availableIds(createRegistry(env))
        /\ {responses[1].body.json.available[i] :
                i \in 1..Len(responses[1].body.json.available)} = RegisteredIds

C2_Witness ==
    /\ pc = "done"
    /\ req.method = "POST"
    /\ req.xBackend = Some("does-not-exist")
    /\ env.BACKEND_BUN_SQLITE_URL = Some("http://up2")
    /\ Len(responses) = 1
    /\ responses[1].status = 400
    /\ responses[1].body = JsonBody([error |-> "Unknown backend",
                                     available |-> <<"hono-d1", "bun-sqlite">>])
    /\ outbound = <<>>

C6_CorsInvariance ==
    \A i \in 1..Len(responses) :
        /\ {"access-control-allow-origin", "access-control-allow-methods",
            "access-control-allow-headers"} \subseteq DOMAIN responses[i].headers
        /\ responses[i].headers["access-control-allow-origin"] = "*"
        /\ responses[i].headers["access-control-allow-methods"] =
               "GET, POST, PUT, PATCH, DELETE, OPTIONS"
        /\ responses[i].headers["access-control-allow-headers"] =
               "Content-Type, x-backend, x-backend-location"

ConfigOf(id) ==
    IF id = "hono-d1" THEN env.BACKEND_HONO_D1_URL ELSE env.BACKEND_BUN_SQLITE_URL

ListingDone ==
    /\ pc = "done"
    /\ req.method = "GET"
    /\ req.pathname = "/backends"
    /\ Len(responses) = 1
    /\ "json" \in DOMAIN responses[1].body

ResolvedThenForwardedOrRejected ==
    /\ Len(lookups) = 1
    /\ \/ Len(outbound) = 1
       \/ /\ pc = "done"
          /\ outbound = <<>>
          /\ Len(responses) = 1
          /\ IsRejection(responses[1])

\* C9 as stated: every inbound request, whatever its method, whose path is
\* neither /health nor /backends goes through backend resolution and is
\* forwarded or rejected with 400.
C9_Original ==
    (Handled /\ req.pathname \notin {"/health", "/backends"}) =>
        ResolvedThenForwardedOrRejected

\* C9 amended: every inbound request whose method is not OPTIONS and whose
\* path is neither /health nor /backends goes through backend resolution and
\* is forwarded or rejected with 400; an OPTIONS request is answered 204 by
\* the CORS middleware, without resolution and without an outbound call.
C9_ProxyCoverage ==
    (Handled /\ req.pathname \notin {"/health", "/backends"}) =>
        IF req.method = "OPTIONS"
        THEN /\ pc = "done"
             /\ lookups = <<>>
             /\ outbound = <<>>
             /\ Len(responses) = 1
             /\ responses[1].status = 204
        ELSE ResolvedThenForwardedOrRejected

C9_Witness ==
    /\ pc = "fetching"
    /\ req.method = "HEAD"
    /\ req.pathname = "/tasks"
    /\ lookups = <<"hono-d1">>
    /\ Len(outbound) = 1
    /\ outbound[1].method = "HEAD"

(***************************************************************************)
(* C10  Response totality.                                                 *)
(***************************************************************************)
\* C10: every inbound request eventually gets a response, and never more than
\* one: while it is served at most one response exists, and a received
\* request leads to the state where it is done with exactly one response.
C10_ResponseTotality ==
    /\ [](Len(responses) <= 1)
    /\ [](pc = "done" => Len(responses) = 1)
    /\ (pc = "received") ~> (pc = "done" /\ Len(responses) = 1)

C10_Witness ==
    /\ pc = "done"
    /\ Len(responses) = 1
    /\ Failed
    /\ TheValue(outcome).failure = TimeoutFailure
    /\ req.method = "DELETE"

(***************************************************************************)
(* C11  Single attempt.                                                    *)
(***************************************************************************)
\* C11: for every forwarded request the pipeline is resolve, then forward,
\* then relay, with at most one outbound call per inbound request: a call is
\* issued only once the identifier resolved and before any response exists, a
\* response to a resolved request follows its call, and while the same
\* request is served (pending, slow, failed or answered) the list of its
\* outbound calls never changes again.
C11_SingleAttempt ==
    /\ [](Len(outbound) <= 1)
    /\ [][/\ (outbound' # outbound /\ outbound' # <<>>) =>
                /\ outbound = <<>>
                /\ Len(lookups') = 1
                /\ getBackend(createRegistry(env), lookups'[1]) # None
                /\ outbound'[1].url[1] =
                       TheValue(getBackend(createRegistry(env), lookups'[1])).url
                /\ responses' = <<>>
          /\ (responses' # responses /\ responses' # <<>> /\ Len(lookups') = 1
                /\ ~IsRejection(responses'[1])) =>
                /\ Len(outbound) = 1
                /\ outbound' = outbound
          /\ (Len(outbound) = 1 /\ req' = req) => outbound' = outbound
       ]_vars

C11_Witness ==
    /\ pc = "done"
    /\ req.method = "PUT"
    /\ Len(outbound) = 1
    /\ elapsed = TimerSteps
    /\ Failed
    /\ TheValue(outcome).failure = TimeoutFailure
    /\ Len(createRegistry(env)) = 2

(***************************************************************************)
(* C12  Unknown-backend error body.                                        *)
(***************************************************************************)
\* C12: the 400 response returned for an x-backend value absent from the
\* registry names that offending identifier in its body.
C12_ErrorBodyNamesId ==
    (pc = "done" /\ Len(responses) = 1 /\ IsRejection(responses[1])) =>
        LET id == lookups[1]
            payload == responses[1].body.json
        IN  \/ payload.error = id
            \/ \E i \in 1..Len(payload.available) : payload.available[i] = id

(***************************************************************************)
(* C13  Registry id uniqueness.                                            *)
(***************************************************************************)
\* Identifiers looked up in the registries: every x-backend value of the
\* model and near misses of the registered ids.
ProbeIds ==
    {TheValue(h) : h \in BackendHeaders \ {None}}
        \cup {"hono", "bun-sqlite ", "BUN-SQLITE", "hono-d1-backend"}

\* C13: in the registry createRegistry builds from any configuration no two
\* descriptors share an id, each descriptor is stored under the key equal to
\* its own id, and getBackend(id) returns the descriptor whose id is exactly
\* id, or null when there is none; a request is forwarded exactly when the
\* identifier it was resolved with is the id of a descriptor.
C13_RegistryIdUniqueness ==
    LET registry == createRegistry(env)
        n == Len(registry)
    IN  /\ \A i, j \in 1..n : registry[i].value.id = registry[j].value.id => i = j
        /\ \A i \in 1..n : registry[i].key = registry[i].value.id
        /\ \A id \in ProbeIds :
               IF \E i \in 1..n : registry[i].value.id = id
               THEN /\ getBackend(registry, id) # None
                    /\ TheValue(getBackend(registry, id)).id = id
               ELSE getBackend(registry, id) = None
        /\ (Handled /\ Len(lookups) = 1) =>
               ((outbound # <<>>) <=>
                    \E i \in 1..n : registry[i].value.id = lookups[1])

C13_Witness ==
    /\ pc = "done"
    /\ req.xBackend = Some("HONO-D1")
    /\ lookups = <<"HONO-D1">>
    /\ outbound = <<>>
    /\ Len(responses) = 1
    /\ IsRejection(responses[1])
    /\ Len(createRegistry(env)) = 2

(***************************************************************************)
(* C14  Statelessness under concurrency.                                   *)
(***************************************************************************)
\* C14: serving a request leaves the descriptors of the registry unchanged
\* and touches no other request in flight, and in every interleaving what a
\* request was resolved to, what was sent upstream for it and what was
\* answered to it are those of the same request served alone: a function of
\* the request, the configuration and the upstream's answer to it.
C14_Stateless ==
    /\ [][/\ listBackends(createRegistry(env')) = listBackends(createRegistry(env))
          /\ \A i, j \in Slots :
                (inflight'[i] # inflight[i] /\ j # i) => inflight'[j] = inflight[j]
       ]_vars
    /\ [](\A i \in Slots :
            LET slot == inflight[i]
                alone == dispatched(slot.req, env)
            IN  /\ slot.pc = "fetching" => slot = alone
                /\ slot.pc = "done" =>
                      slot = IF alone.pc = "done"
                             THEN alone
                             ELSE settled(alone, runtime, TheValue(slot.outcome)))
    /\ [](\A i, j \in Slots :
            (inflight[i].req = inflight[j].req
                /\ inflight[i].outcome = inflight[j].outcome
                /\ inflight[i].pc = inflight[j].pc) => inflight[i] = inflight[j])

C14_Witness ==
    /\ inflight[1].pc = "done"
    /\ inflight[1].req.xBackend = Some("bun-sqlite")
    /\ inflight[1].outcome # None
    /\ TheValue(inflight[1].outcome).kind = "failure"
    /\ inflight[2].pc = "done"
    /\ inflight[2].req.xBackend = Some("does-not-exist")
    /\ IsRejection(inflight[2].responses[1])
    /\ Len(createRegistry(env)) = 2

(***************************************************************************)
(* C15  Outbound headers.                                                  *)
(***************************************************************************)
\* C15: for every forwarded request the outbound Content-Type and Accept
\* headers carry the values of the inbound Content-Type and Accept headers,
\* x-forwarded-for and x-gateway-version are set, and x-backend is on the
\* outbound request exactly when it was on the inbound one, with its value.
C15_OutboundHeaders ==
    (Handled /\ Len(outbound) = 1) =>
        LET h == outbound[1].headers
        IN  /\ req.contentType # None => h["content-type"] = TheValue(req.contentType)
            /\ req.accept # None => h["accept"] = TheValue(req.accept)
            /\ "x-forwarded-for" \in DOMAIN h
            /\ "x-gateway-version" \in DOMAIN h
            /\ ("x-backend" \in DOMAIN h) <=> (req.xBackend # None)
            /\ ("x-backend" \in DOMAIN h) => h["x-backend"] = TheValue(req.xBackend)

(***************************************************************************)
(* Vocabulary of the properties of the Bun-SQLite backend.                 *)
(***************************************************************************)
TaskIds == {row.id : row \in tasks}
ProjectIds == {row.id : row \in projects}

\* The rows of a table other than the one with this id.
Others(rows, id) == {row \in rows : row.id # id}

\* The elements of a list result.
Returned(list) == {list[i] : i \in DOMAIN list}

(***************************************************************************)
(* C16  Create/get round trip.                                             *)
(***************************************************************************)
\* C16: TaskModel.create with a title that is present and not empty, and a
\* status that is absent or one of the four, returns a task with an id no row
\* has or had, the given title, and status 'inbox' when none is given, and
\* get(id) then returns that very record; ProjectModel.create does the same
\* with the given name and status 'active'; all ids handed out differ.
C16_CreateGetRoundTrip ==
    /\ (/\ ret.op = "task.create"
        /\ ret.input.title # None
        /\ ret.input.title # Some("")
        /\ ret.input.status # None => TheValue(ret.input.status) \in TaskStatus) =>
            /\ ~ret.threw
            /\ apiStatus(ret) = 201
            /\ ret.value.title = TheValue(ret.input.title)
            /\ ret.input.status = None => ret.value.status = "inbox"
            /\ selectById(tasks, ret.value.id) = Some(ret.value)
            /\ Cardinality({row \in tasks : row.id = ret.value.id}) = 1
            /\ ret.value.id \notin ProjectIds \cup removed
    /\ (/\ ret.op = "project.create"
        /\ ret.input.name # None
        /\ ret.input.name # Some("")
        /\ ret.input.status # None => TheValue(ret.input.status) \in ProjectStatus) =>
            /\ ~ret.threw
            /\ apiStatus(ret) = 201
            /\ ret.value.name = TheValue(ret.input.name)
            /\ ret.input.status = None => ret.value.status = "active"
            /\ selectById(projects, ret.value.id) = Some(ret.value)
            /\ Cardinality({row \in projects : row.id = ret.value.id}) = 1
            /\ ret.value.id \notin TaskIds \cup removed
    /\ (ret.op \in {"task.get", "project.get"} /\ ret.value # None) =>
            TheValue(ret.value).id = ret.id
    /\ Cardinality(TaskIds) = Cardinality(tasks)
    /\ Cardinality(ProjectIds) = Cardinality(projects)
    /\ Cardinality(TaskIds \cup ProjectIds \cup removed) = issued

C16_Witness ==
    /\ ret.op = "task.create"
    /\ ~ret.threw
    /\ ret.input.status = None
    /\ ret.value.id = generateId(2)
    /\ ret.value.status = "inbox"
    /\ Cardinality(tasks) = 2

(***************************************************************************)
(* C17  Create validation.                                                 *)
(***************************************************************************)
\* C17: TaskModel.create with an empty or missing title and
\* ProjectModel.create with an empty or missing name throw (400 at the API),
\* and the step leaves the tasks and the projects as they were.
C17_CreateValidation ==
    [][/\ (/\ ret'.op = "task.create"
           /\ ret'.input.title \in {None, Some("")}) =>
                /\ ret'.threw
                /\ apiStatus(ret') = 400
                /\ tasks' = tasks
                /\ projects' = projects
       /\ (/\ ret'.op = "project.create"
           /\ ret'.input.name \in {None, Some("")}) =>
                /\ ret'.threw
                /\ apiStatus(ret') = 400
                /\ tasks' = tasks
                /\ projects' = projects
    ]_vars

C17_Witness ==
    /\ ret.op = "task.create"
    /\ ret.threw
    /\ ret.input.title = Some("")
    /\ Cardinality(tasks) = 1
    /\ Cardinality(projects) = 1

(***************************************************************************)
(* C18  Update.                                                            *)
(***************************************************************************)
\* C18: TaskModel.update(id, input), with a status that is absent or one of
\* the four, on an existing task gives title, status and project_id the
\* values present in the input, keeps those that are absent, keeps id and
\* created_at, returns the row, and leaves every other task and the projects
\* unchanged; on an id with no row it returns undefined (404 at the API) and
\* changes nothing.
C18_Update ==
    [][(/\ ret'.op = "task.update"
        /\ ret'.input.status # None => TheValue(ret'.input.status) \in TaskStatus) =>
            LET id == ret'.id
                input == ret'.input
                existing == selectById(tasks, id)
            IN  /\ ~ret'.threw
                /\ projects' = projects
                /\ IF existing = None
                   THEN /\ ret'.value = None
                        /\ apiStatus(ret') = 404
                        /\ tasks' = tasks
                   ELSE /\ ret'.value # None
                        /\ ret'.value = selectById(tasks', id)
                        /\ LET old == TheValue(existing)
                               new == TheValue(ret'.value)
                           IN  /\ new.id = old.id
                               /\ new.created_at = old.created_at
                               /\ new.title = IF input.title # None
                                              THEN TheValue(input.title)
                                              ELSE old.title
                               /\ new.status = IF input.status # None
                                               THEN TheValue(input.status)
                                               ELSE old.status
                               /\ new.project_id = IF input.project_id # None
                                                   THEN TheValue(input.project_id)
                                                   ELSE old.project_id
                        /\ Others(tasks', id) = Others(tasks, id)
                        /\ Cardinality(tasks') = Cardinality(tasks)
    ]_vars

C18_Witness ==
    /\ ret.op = "task.update"
    /\ ~ret.threw
    /\ ret.input = [title |-> Some("b"), project_id |-> Some(None), status |-> None]
    /\ ret.value # None
    /\ TheValue(ret.value).title = "b"
    /\ TheValue(ret.value).status = "done"
    /\ TheValue(ret.value).project_id = None
    /\ TheValue(ret.value).created_at = 0
    /\ TheValue(ret.value).updated_at = 1
    /\ Cardinality(tasks) = 2

C20_StatusFilter ==
    (ret.op = "task.list") =>
        /\ Len(ret.value) = Cardinality(Returned(ret.value))
        /\ (ret.status # None /\ TheValue(ret.status) \in TaskStatus) =>
              Returned(ret.value) = {row \in tasks : row.status = TheValue(ret.status)}
        /\ ret.status = None => Returned(ret.value) = tasks

C20_Witness ==
    /\ ret.op = "task.list"
    /\ ret.status = Some("next")
    /\ Len(ret.value) = 1
    /\ Cardinality(tasks) = 2
    /\ \E row \in tasks : row.status = "inbox"

(***************************************************************************)
(* Vocabulary of the properties of the two backends side by side.          *)
(***************************************************************************)
\* A request has been sent and both backends have answered it.
BothAnswered == httpReq # NoCall

\* The response carries this value as its JSON body.
HasJson(res, value) == "json" \in DOMAIN res.body /\ res.body.json = value

\* The response carries a JSON object with these properties and no other.
HasJsonShape(res, names) ==
    "json" \in DOMAIN res.body /\ DOMAIN res.body.json = names

(***************************************************************************)
(* C21  Hono-D1 read after write.                                          *)
(***************************************************************************)
\* C21: in the Hono-D1 backend a POST /tasks or /projects that succeeds
\* answers 201 with the created record as its JSON body; GET /tasks/:id or
\* /projects/:id answers 200 with the record when the id is stored, and 404
\* with a body of shape {error, message} when it is not.
C21_ReadAfterWrite ==
    BothAnswered =>
        LET res == TheValue(d1res)
            table == IF httpReq.op \in {"POST /tasks", "GET /tasks/:id"}
                     THEN d1tasks ELSE d1projects
        IN  /\ (httpReq.op \in {"POST /tasks", "POST /projects"} /\ res.status = 201) =>
                  HasJson(res, TheValue(first(table, generateId(d1issued))))
            /\ httpReq.op \in {"GET /tasks/:id", "GET /projects/:id"} =>
                  LET row == first(table, httpReq.id)
                  IN  IF row # None
                      THEN res.status = 200 /\ HasJson(res, TheValue(row))
                      ELSE res.status = 404 /\ HasJsonShape(res, {"error", "message"})

(***************************************************************************)
(* C22  Backend interchangeability.                                        *)
(***************************************************************************)
\* The properties of a record the two backends both keep.
Shared(a, b) == DOMAIN a \cap DOMAIN b

\* Two bodies are equivalent: both empty, or both JSON objects that agree
\* on the properties they share (Hono-D1 rows have a description, error
\* bodies may say more in one backend than in the other).
EquivalentBodies(a, b) ==
    \/ "null" \in DOMAIN a /\ "null" \in DOMAIN b
    \/ /\ "json" \in DOMAIN a /\ "json" \in DOMAIN b
       /\ Shared(a.json, b.json) # {}
       /\ \A name \in Shared(a.json, b.json) \ {"message"} : a.json[name] = b.json[name]

\* C22: sent the same sequence of task and project requests, the Hono-D1
\* backend and the Bun-SQLite backend answer every request with the same
\* status code and equivalent bodies.
C22_Interchangeable ==
    BothAnswered =>
        /\ TheValue(d1res).status = TheValue(bunres).status
        /\ EquivalentBodies(TheValue(d1res).body, TheValue(bunres).body)

(***************************************************************************)
(* C23  MCP tool error handling.                                           *)
(***************************************************************************)
\* The operation a tool call asks for fails: the CLI command fails, or the
\* directory or file the tool reads is missing.
OperationFails(world, name, args) ==
    CASE name \in {"onecoder-sprint-start", "onecoder-sprint-status",
                   "onecoder-sprint-commit", "onecoder-sprint-close"} -> ~world.cli
      [] name = "project-list-specs" -> ~world.specs
      [] name = "project-list-adr" -> ~world.adr
      [] name = "project-analyze-architecture" ->
            args # None /\ Truthy(TheValue(args).component) /\ ~world.component
      [] OTHER -> ~world.file

\* C23: a call of a registered tool, whatever its arguments and also without
\* arguments, completes with a result object and never throws; the result
\* is {success: false, error} whenever the operation fails and has success:
\* true only when it succeeded.
C23_ToolsNeverThrow ==
    mcpCall.op = "tools/call" =>
        /\ ~mcpCall.threw
        /\ LET result == TheValue(mcpCall.result)
               fails == OperationFails(mcpWorld, mcpCall.name, mcpCall.args)
           IN  /\ fails => DOMAIN result = {"success", "error"} /\ ~result.success
               /\ result.success => ~fails

(***************************************************************************)
(* C24  MCP feedback://recent.                                             *)
(***************************************************************************)
\* The lines written in a text: the empty string split("\n") gives after a
\* final newline is not one of them.
Written(text) ==
    IF text[Len(text)] = "" THEN SubSeq(text, 1, Len(text) - 1) ELSE text

\* The log entries of a text, in order: each runs from its "###" line to the
\* line before the next "###" line, the last to the last line written.
Entries(text) ==
    LET lines == Written(text)
        indices == entryIndices(lines)
    IN  [k \in 1..Len(indices) |->
            SubSeq(lines, indices[k] + 1,
                   IF k < Len(indices) THEN indices[k + 1] ELSE Len(lines))]

\* The last n elements of a list, all of them when it has fewer.
Last(list, n) == SubSeq(list, Max(Len(list) - n, 0) + 1, Len(list))

\* C24: whatever FEEDBACK.md holds, reading feedback://recent returns its
\* last 10 log entries, each complete up to its last line, or all its
\* entries when it has fewer than 10; reading feedback://all returns the
\* whole file.
C24_FeedbackRecent ==
    (mcpCall.op = "resources/read" /\ mcpWorld.feedback # None) =>
        LET content == TheValue(mcpWorld.feedback)
            text == mcpCall.contents.text
        IN  IF mcpCall.uri = "feedback://recent"
            THEN Entries(text) = Last(Entries(content), RecentEntries)
            ELSE text = content

(***************************************************************************)
(* C25  Frontend optimistic update revert.                                 *)
(***************************************************************************)
\* The awaited call of this slot settles in this step.
Settles(slot) == calls[slot] # NoPending /\ calls'[slot] = NoPending

\* The task as the list shows it: {} when the list does not have it.
Shown(list, id) == find(list, id)

\* C25: when the API call of toggleTask, moveTask or deleteTask fails, the
\* affected task has again the status it had before the operation (a
\* deleted task is in the list again) and an error message is set; when the
\* call succeeds the list stays as it is; and the change of a task whose
\* call succeeded is kept: the failure of a call changes no task but its
\* own.
C25_OptimisticRevert ==
    [][\A slot \in CallSlots :
          Settles(slot) =>
              LET call == calls[slot]
              IN  IF uiLast'.kind = "failed"
                  THEN /\ Shown(uiTasks', call.id) # None
                          => TheValue(Shown(uiTasks', call.id)).status = call.before
                       /\ call.op = "deleteTask" => Shown(uiTasks', call.id) # None
                       /\ uiError' # None
                       /\ \A id \in PageIds \ {call.id} :
                             Shown(uiTasks', id) = Shown(uiTasks, id)
                  ELSE uiTasks' = uiTasks]_vars

(***************************************************************************)
(* C26  Task status domain.                                                *)
(***************************************************************************)
\* The request handled last carries a status outside the set of its table.
CarriesForeignStatus(request) ==
    /\ request.op \in {"POST /tasks", "PUT /tasks/:id", "POST /projects",
                       "PUT /projects/:id"}
    /\ request.body.status # None
    /\ TheValue(request.body.status) \notin
          (IF request.op \in {"POST /tasks", "PUT /tasks/:id"}
           THEN TaskStatus ELSE ProjectStatus)

\* Every stored task and project of both backends has a status of its set.
StatusesInDomain ==
    /\ \A row \in tasks \cup d1tasks : row.status \in TaskStatus
    /\ \A row \in projects \cup d1projects : row.status \in ProjectStatus

\* C26: in both backends, after any sequence of create and update requests
\* with arbitrary status values, every stored task has a status in {inbox,
\* next, waiting, done} and every stored project one in {active, someday,
\* archive}; and a request that carries a status outside the set changes no
\* stored record.
C26_StatusDomain ==
    /\ []StatusesInDomain
    /\ [][CarriesForeignStatus(httpReq') =>
             UNCHANGED <<tasks, projects, d1tasks, d1projects>>]_vars

(***************************************************************************)
(* C27  Task-project referential integrity.                                *)
(***************************************************************************)
\* Every task of the table refers to no project or to a stored one.
References(children, parents) ==
    \A row \in children :
        row.project_id # None => \E parent \in parents : parent.id = TheValue(row.project_id)

\* C27: in both backends, after any sequence of task and project creates,
\* updates and deletes, the project_id of every stored task is null or the
\* id of a stored project; and deleting a project sets project_id to null
\* on every task that referred to it and deletes no task.
C27_ReferentialIntegrity ==
    /\ [](References(tasks, projects) /\ References(d1tasks, d1projects))
    /\ [][httpReq'.op = "DELETE /projects/:id" =>
             /\ {row.id : row \in tasks'} = {row.id : row \in tasks}
             /\ {row.id : row \in d1tasks'} = {row.id : row \in d1tasks}
             /\ \A row \in tasks' \cup d1tasks' : row.project_id # Some(httpReq'.id)]_vars

====
